---- MODULE Spec2Model ----
(***************************************************************************)
(* Model of the CEPS website analyzer: the response parser                 *)
(* (services/llm_router.py), the five agents with their rule-based         *)
(* scorers (the agents package), the aggregator (core/scoring.py) and the  *)
(* bounded-concurrency dispatcher of app.py.                               *)
(*                                                                         *)
(* Conventions.                                                            *)
(*  - A response text is a sequence of atoms; the text the program sees is *)
(*    the concatenation of the atoms.  The atoms are single characters     *)
(*    ({ } [ ] : , - digits, space, newline), the three-backtick fence      *)
(*    marker (written "<fence>"), a run of opening brackets nested deeper  *)
(*    than the interpreter's recursion limit (written "<deep>"), the words *)
(*    json, null, true, false, whole string literals ("score") and prose   *)
(*    words.                                                               *)
(*  - A Python value is a record [t |-> type tag, v |-> payload].          *)
(*    Floats are kept as integers counting tenths (68.0 is 680).           *)
(*    A str is a sequence of chunks whose concatenation is the string.     *)
(*    A dict is a set of <<key, value>> pairs with distinct keys.          *)
(*  - In message strings "[check]" stands for the check-mark character and *)
(*    "--" for the long dash.                                              *)
(***************************************************************************)
EXTENDS Integers, Sequences, FiniteSets, TLC

(***************************************************************************)
(* Python values                                                           *)
(***************************************************************************)
PyNone == [t |-> "none", v |-> <<>>]
PyBool(b) == [t |-> "bool", v |-> b]
PyInt(n) == [t |-> "int", v |-> n]
PyFloat(tenths) == [t |-> "float", v |-> tenths]
\* an int beyond the range of a float
PyBigInt == [t |-> "bigint", v |-> 0]
PyStr(chunks) == [t |-> "str", v |-> chunks]
PyList(elems) == [t |-> "list", v |-> elems]
PyDict(pairs) == [t |-> "dict", v |-> pairs]
PyExc(name) == [t |-> "exc", v |-> name]

IsExc(x) == x.t = "exc"

\* dict operations: key in d, d[key], d.get(key, default), d[key] = value
DictHas(d, k) == \E p \in d.v : p[1] = k
DictItem(d, k) == (CHOOSE p \in d.v : p[1] = k)[2]
DictGet(d, k, default) == IF DictHas(d, k) THEN DictItem(d, k) ELSE default
DictPut(pairs, k, val) == {p \in pairs : p[1] # k} \cup {<<k, val>>}

(***************************************************************************)
(* json.loads on a sequence of atoms                                       *)
(***************************************************************************)
WS == {" ", "\n"}
Digit == {"0", "1", "2", "5", "6", "7", "8"}
DigitVal(a) ==
    CASE a = "0" -> 0 [] a = "1" -> 1 [] a = "2" -> 2 [] a = "5" -> 5
      [] a = "6" -> 6 [] a = "7" -> 7 [] a = "8" -> 8

\* the string literals of the alphabet and the string each denotes
StringLiterals ==
    ("\"score\"" :> "score") @@ ("\"findings\"" :> "findings")
    @@ ("\"summary\"" :> "summary") @@ ("\"x\"" :> "x") @@ ("\"y\"" :> "y")
    @@ ("\"85\"" :> "85") @@ ("\"rule-based\"" :> "rule-based")
    @@ ("\"error\"" :> "error")
    @@ ("\"No images could be downloaded\"" :> "No images could be downloaded")
    @@ ("\"Could not download image\"" :> "Could not download image")
IsStrLit(a) == a \in DOMAIN StringLiterals

\* the atom that stands for opening brackets nested deeper than the recursion
\* limit: the scanner raises RecursionError when it reads a value there
Deep == "<deep>"
\* stands for an integer literal of 400 digits
Huge == "<huge>"

\* what scanning a value gives: the value and where it ends, a JSONDecodeError
\* (ParseFail) or a RecursionError (ParseDeep)
ParseFail == [ok |-> FALSE, val |-> PyNone, end |-> 0, exc |-> FALSE]
ParseDeep == [ok |-> FALSE, val |-> PyNone, end |-> 0, exc |-> TRUE]
ParseOk(val, end) == [ok |-> TRUE, val |-> val, end |-> end, exc |-> FALSE]

At(s, i) == IF i >= 1 /\ i <= Len(s) THEN s[i] ELSE "<eof>"

RECURSIVE SkipWs(_, _)
SkipWs(s, i) == IF At(s, i) \in WS THEN SkipWs(s, i + 1) ELSE i

\* [0-9]*: the digits go on through single digits and through <huge>
RECURSIVE DigitsEnd(_, _)
DigitsEnd(s, i) == IF At(s, i) \in Digit \cup {Huge} THEN DigitsEnd(s, i + 1) ELSE i

RECURSIVE DigitsValue(_, _, _)
DigitsValue(s, i, j) ==
    IF j < i THEN 0 ELSE 10 * DigitsValue(s, i, j - 1) + DigitVal(s[j])

\* NUMBER_RE of the json scanner, integer part: -?(0|[1-9][0-9]*)
ParseNumber(s, i) ==
    LET neg == At(s, i) = "-"
        j == IF neg THEN i + 1 ELSE i
    IN IF At(s, j) \notin Digit \cup {Huge} THEN ParseFail
       ELSE IF s[j] = "0" THEN ParseOk(PyInt(0), j + 1)
       ELSE LET e == DigitsEnd(s, j)
            IN IF \E k \in j..(e - 1) : s[k] = Huge
               THEN ParseOk(PyBigInt, e)
               ELSE LET n == DigitsValue(s, j, e - 1)
                    IN ParseOk(PyInt(IF neg THEN 0 - n ELSE n), e)

RECURSIVE ParseValue(_, _), ParseMembers(_, _, _), ParseElements(_, _, _)

\* JSONObject: the members after the opening brace, i at a key
ParseMembers(s, i, acc) ==
    IF ~IsStrLit(At(s, i)) THEN ParseFail
    ELSE LET key == StringLiterals[s[i]]
             c == SkipWs(s, i + 1)
         IN IF At(s, c) # ":" THEN ParseFail
            ELSE LET r == ParseValue(s, SkipWs(s, c + 1))
                 IN IF ~r.ok THEN r
                    ELSE LET m == SkipWs(s, r.end)
                             acc2 == DictPut(acc, key, r.val)
                         IN IF At(s, m) = "}" THEN ParseOk(PyDict(acc2), m + 1)
                            ELSE IF At(s, m) = ","
                                 THEN ParseMembers(s, SkipWs(s, m + 1), acc2)
                                 ELSE ParseFail

\* JSONArray: the elements after the opening bracket, i at a value
ParseElements(s, i, acc) ==
    LET r == ParseValue(s, i)
    IN IF ~r.ok THEN r
       ELSE LET m == SkipWs(s, r.end)
                acc2 == Append(acc, r.val)
            IN IF At(s, m) = "]" THEN ParseOk(PyList(acc2), m + 1)
               ELSE IF At(s, m) = ","
                    THEN ParseElements(s, SkipWs(s, m + 1), acc2)
                    ELSE ParseFail

\* scan_once: one JSON value starting exactly at i
ParseValue(s, i) ==
    LET a == At(s, i)
    IN CASE a = "{" ->
              LET j == SkipWs(s, i + 1)
              IN IF At(s, j) = "}" THEN ParseOk(PyDict({}), j + 1)
                 ELSE ParseMembers(s, j, {})
         [] a = "[" ->
              LET j == SkipWs(s, i + 1)
              IN IF At(s, j) = "]" THEN ParseOk(PyList(<<>>), j + 1)
                 ELSE ParseElements(s, j, <<>>)
         [] IsStrLit(a) -> ParseOk(PyStr(<<StringLiterals[a]>>), i + 1)
         [] a = "null" -> ParseOk(PyNone, i + 1)
         [] a = "true" -> ParseOk(PyBool(TRUE), i + 1)
         [] a = "false" -> ParseOk(PyBool(FALSE), i + 1)
         [] a = "-" \/ a \in Digit \/ a = Huge -> ParseNumber(s, i)
         [] a = Deep -> ParseDeep
         [] OTHER -> ParseFail

\* json.loads: leading whitespace, one value, trailing whitespace, end of text;
\* anything else is a JSONDecodeError (ok = FALSE); exc: RecursionError
Decoded(s, r) ==
    IF r.exc THEN [ok |-> FALSE, val |-> PyNone, exc |-> TRUE]
    ELSE IF r.ok /\ SkipWs(s, r.end) = Len(s) + 1
    THEN [ok |-> TRUE, val |-> r.val, exc |-> FALSE]
    ELSE [ok |-> FALSE, val |-> PyNone, exc |-> FALSE]
json_loads(s) == Decoded(s, ParseValue(s, SkipWs(s, 1)))

(***************************************************************************)
(* LLMRouter.parse_json                                                    *)
(***************************************************************************)
\* the atom that stands for the three-backtick fence marker
Fence == "<fence>"

Positions(s, a) == {i \in 1..Len(s) : s[i] = a}
Min(S) == CHOOSE x \in S : \A y \in S : x <= y
Max(S) == CHOOSE x \in S : \A y \in S : x >= y

\* a variant of the code-fence search without the optional json tag
FenceSearchNoTag(s) ==
    LET fences == Positions(s, Fence)
    IN IF Cardinality(fences) < 2 THEN [found |-> FALSE, group |-> <<>>]
       ELSE LET open == Min(fences)
                start == SkipWs(s, open + 1)
                close == Min({i \in fences : i >= start})
                stop == IF close - 1 >= start /\ s[close - 1] = "\n"
                        THEN close - 1 ELSE close
            IN [found |-> TRUE, group |-> SubSeq(s, start, stop - 1)]

\* The code-fence search of parse_json (re.DOTALL): the leftmost fence that has
\* a later fence; group 1 starts after the optional json tag and all the
\* whitespace, and stops before the next fence, less one newline
FenceSearch(s) ==
    LET fences == Positions(s, Fence)
    IN IF Cardinality(fences) < 2 THEN [found |-> FALSE, group |-> <<>>]
       ELSE LET open == Min(fences)
                afterTag == IF At(s, open + 1) = "json" THEN open + 2 ELSE open + 1
                start == SkipWs(s, afterTag)
                close == Min({i \in fences : i >= start})
                stop == IF close - 1 >= start /\ s[close - 1] = "\n"
                        THEN close - 1 ELSE close
            IN [found |-> TRUE, group |-> SubSeq(s, start, stop - 1)]

\* The bare-object search of parse_json: first opening brace through last
\* closing brace
BraceSearch(s) ==
    LET opens == Positions(s, "{")
        closes == Positions(s, "}")
    IN IF opens = {} \/ closes = {} \/ Max(closes) < Min(opens)
       THEN [found |-> FALSE, group |-> <<>>]
       ELSE [found |-> TRUE, group |-> SubSeq(s, Min(opens), Max(closes))]

NoParse == [ok |-> FALSE, val |-> PyNone, exc |-> FALSE]

\* the extractions of parse_json, in the order it tries them
TierOrder == <<"direct", "fence", "brace">>

\* one extraction: json.loads of the whole text, of group 1 of the fence
\* search, or of the bare-object match; ok = FALSE when the search finds
\* nothing or json.loads raises JSONDecodeError, which the except clause
\* catches; exc = TRUE when json.loads raises RecursionError, which it does not
MatchLoads(m) == IF m.found THEN json_loads(m.group) ELSE NoParse
Tier(name, text) ==
    CASE name = "direct" -> json_loads(text)
      [] name = "fence" -> MatchLoads(FenceSearch(text))
      [] name = "brace" -> MatchLoads(BraceSearch(text))

\* the extractions from the i-th on: r is what the i-th gave
RECURSIVE FirstParse(_, _), AfterTier(_, _, _)
AfterTier(text, i, r) ==
    IF r.exc THEN PyExc("RecursionError")
    ELSE IF r.ok THEN r.val ELSE FirstParse(text, i + 1)
FirstParse(text, i) ==
    IF i > Len(TierOrder) THEN PyNone
    ELSE AfterTier(text, i, Tier(TierOrder[i], text))

\* the value parse_json returns, or the exception that leaves it
parse_json(text) == FirstParse(text, 1)

(***************************************************************************)
(* Response texts                                                          *)
(***************************************************************************)
\* longest text over ShortAlphabet that is enumerated exhaustively
MaxTextLen == 3

ShortAlphabet ==
    {"{", "}", "[", "]", ",", ":", "\"score\"", "7", "0", "-",
     Fence, "json", " ", "\n", "null", "Here", Deep}

RECURSIVE SeqsUpTo(_, _)
SeqsUpTo(A, n) ==
    IF n = 0 THEN {<<>>}
    ELSE LET shorter == SeqsUpTo(A, n - 1)
         IN shorter \cup {Append(t, a) : t \in {u \in shorter : Len(u) = n - 1}, a \in A}

ShortTexts == SeqsUpTo(ShortAlphabet, MaxTextLen)

\* the text of one object member and of an object with the given members
Member(key, val) == <<key, ":", " ">> \o val
RECURSIVE JoinMembers(_)
JoinMembers(ms) ==
    IF ms = <<>> THEN <<>>
    ELSE IF Len(ms) = 1 THEN ms[1]
    ELSE ms[1] \o <<",", " ">> \o JoinMembers(Tail(ms))
Obj(ms) == <<"{">> \o JoinMembers(ms) \o <<"}">>

\* an object with optional score, findings and summary members (<<>>: absent)
Reply(score, findings, summary) ==
    Obj((IF score = <<>> THEN <<>> ELSE <<Member("\"score\"", score)>>)
        \o (IF findings = <<>> THEN <<>> ELSE <<Member("\"findings\"", findings)>>)
        \o (IF summary = <<>> THEN <<>> ELSE <<Member("\"summary\"", summary)>>))

ScoreTexts ==
    {<<>>, <<"7", "2">>, <<"8", "0">>, <<"6", "0">>, <<"0">>, <<"1", "0", "0">>,
     <<"1", "5", "0">>, <<"-", "5">>, <<"\"85\"">>, <<"\"x\"">>, <<"true">>,
     <<"null">>, <<"[", "7", "]">>}
FindingsTexts ==
    {<<>>, <<"[", "\"x\"", "]">>, <<"[", "\"y\"", "]">>, <<"[", "]">>, <<"\"x\"">>,
     <<"null">>, <<"7">>, <<"{", "}">>}
SummaryTexts ==
    {<<>>, <<"\"y\"">>, <<"\"rule-based\"">>, <<"7">>, <<"null">>}

Replies ==
    {Reply(sc, fi, su) : sc \in ScoreTexts, fi \in FindingsTexts, su \in SummaryTexts}

\* texts that are not an object, and broken JSON
OtherBodies ==
    {<<"7", "2">>, <<"0">>, <<"\"score\"">>, <<"\"x\"">>, <<"[", "\"score\"", "]">>,
     <<"[", "]">>, <<"null">>, <<"true">>, <<"false">>, <<"Here", " ", "is">>,
     <<"{", "\"score\"", ":", " ", "7", "2">>,
     <<"{", "\"score\"", ":", " ", "7", "2", ",", "}">>,
     <<"{", "\"score\"", ":", " ", "0", "7", "}">>,
     <<"{", "\"score\"", ":", " ", "7", "2", "}", "}">>,
     <<Deep>>, <<"{", "\"score\"", ":", " ", Deep, "}">>,
     <<"{", "\"score\"", ":", " ", Huge, "}">>, <<"7", Huge>>}

\* the ways a body is wrapped in a response
Fenced(b) == <<Fence, "\n">> \o b \o <<"\n", Fence>>
FencedJson(b) == <<Fence, "json", "\n">> \o b \o <<"\n", Fence>>
ProseFenced(b) == <<"Here", " ", "is", ":", "\n">> \o FencedJson(b) \o <<"\n", "Here">>
ProseBare(b) == <<"Here", " ", "is", ":", " ">> \o b \o <<" ", "Here">>
\* a fenced block followed by another value in braces
FencedThenBrace(b) == <<Fence, " ">> \o b \o <<" ", Fence, " ", "{", "}">>
Wrappings(b) ==
    {b, Fenced(b), FencedJson(b), ProseFenced(b), ProseBare(b), FencedThenBrace(b)}

Texts ==
    ShortTexts \cup UNION {Wrappings(b) : b \in Replies \cup OtherBodies}

(***************************************************************************)
(* Python operations the agents apply to the parsed value                  *)
(***************************************************************************)
\* bool(x)
PyTruthy(x) ==
    CASE x.t = "none" -> FALSE
      [] x.t = "bool" -> x.v
      [] x.t \in {"int", "float"} -> x.v # 0
      [] x.t = "bigint" -> TRUE
      [] x.t \in {"str", "list"} -> Len(x.v) > 0
      [] x.t = "dict" -> x.v # {}

\* key in x, for a str key of one chunk; exc: the test raises TypeError
PyIn(key, x) ==
    CASE x.t = "dict" -> [exc |-> FALSE, val |-> DictHas(x, key)]
      [] x.t = "list" ->
           [exc |-> FALSE, val |-> \E i \in 1..Len(x.v) : x.v[i] = PyStr(<<key>>)]
      [] x.t = "str" -> [exc |-> FALSE, val |-> \E i \in 1..Len(x.v) : x.v[i] = key]
      [] OTHER -> [exc |-> TRUE, val |-> FALSE]

\* x[key] for a str key
PyGetItem(x, key) ==
    IF x.t = "dict"
    THEN IF DictHas(x, key) THEN DictItem(x, key) ELSE PyExc("KeyError")
    ELSE PyExc("TypeError")

\* the strings float() accepts, with their value in tenths
NumericStrings == ("85" :> 850)

\* float(x), in tenths
PyFloatOf(x) ==
    CASE x.t = "int" -> PyFloat(10 * x.v)
      [] x.t = "float" -> x
      [] x.t = "bigint" -> PyExc("OverflowError")
      [] x.t = "bool" -> PyFloat(IF x.v THEN 10 ELSE 0)
      [] x.t = "str" ->
           IF Len(x.v) = 1 /\ x.v[1] \in DOMAIN NumericStrings
           THEN PyFloat(NumericStrings[x.v[1]]) ELSE PyExc("ValueError")
      [] OTHER -> PyExc("TypeError")

PyNumeric(x) == x.t \in {"int", "bool"}
PyIntOf(x) == IF x.t = "bool" THEN (IF x.v THEN 1 ELSE 0) ELSE x.v

\* x + y
PyAdd(x, y) ==
    CASE x.t = "list" /\ y.t = "list" -> PyList(x.v \o y.v)
      [] x.t = "str" /\ y.t = "str" -> PyStr(x.v \o y.v)
      [] PyNumeric(x) /\ PyNumeric(y) -> PyInt(PyIntOf(x) + PyIntOf(y))
      [] x.t \in {"int", "bool", "bigint"} /\ y.t \in {"int", "bool", "bigint"} -> PyBigInt
      [] OTHER -> PyExc("TypeError")

\* round(n / d) to the nearest integer, ties to even
RoundDiv(n, d) ==
    LET q == n \div d
        r == n % d
    IN IF 2 * r < d THEN q
       ELSE IF 2 * r > d THEN q + 1
       ELSE IF q % 2 = 0 THEN q ELSE q + 1

\* str() of a float kept in tenths, and of one kept in hundredths
Abs(n) == IF n < 0 THEN 0 - n ELSE n
TenthsStr(x) ==
    (IF x < 0 THEN "-" ELSE "") \o ToString(Abs(x) \div 10) \o "." \o ToString(Abs(x) % 10)
HundredthsStr(x) ==
    ToString(x \div 100) \o "."
    \o (IF x % 10 = 0 THEN ToString((x % 100) \div 10)
        ELSE ToString((x % 100) \div 10) \o ToString(x % 10))

(***************************************************************************)
(* core/models.py                                                          *)
(***************************************************************************)
\* most images parse_html keeps (MAX_IMAGES)
MAX_IMAGES == 3

\* PageData with its defaults.  headings has the six levels parse_html fills
\* (an empty list: the key is absent).  Lists are kept by what the scorers read of
\* them: text_len is len(text_content), image_alts has one entry per image URL
\* (TRUE: the image has a non-blank alt text), internal_links, external_links
\* and social_links are the lengths of the lists.  html_size_kb is in tenths,
\* load_time_seconds in hundredths.
PageData ==
    [title |-> "", meta_description |-> "", text_len |-> 0, image_alts |-> <<>>,
     internal_links |-> 0, external_links |-> 0,
     headings |-> [h1 |-> <<>>, h2 |-> <<>>, h3 |-> <<>>, h4 |-> <<>>, h5 |-> <<>>,
                   h6 |-> <<>>],
     has_ssl |-> FALSE, has_viewport_meta |-> FALSE, has_charset |-> FALSE,
     has_lang_attr |-> FALSE, has_favicon |-> FALSE, has_structured_data |-> FALSE,
     has_privacy_policy |-> FALSE, has_contact_info |-> FALSE, social_links |-> 0,
     forms_count |-> 0, scripts_count |-> 0, stylesheets_count |-> 0,
     html_size_kb |-> 0, load_time_seconds |-> 0, status_code |-> 200]

AgentResult(agent_name, score, findings, summary) ==
    [agent_name |-> agent_name, score |-> score, findings |-> findings,
     summary |-> summary]

\* one scoring rule of a rule-based scorer: its points and its findings
Rule(points, findings) == [points |-> points, findings |-> findings]
RECURSIVE RulePoints(_)
RulePoints(rules) ==
    IF rules = <<>> THEN 0 ELSE rules[1].points + RulePoints(Tail(rules))
\* a variant that reports only the rules that earned points
RECURSIVE RuleFindingsPositive(_)
RuleFindingsPositive(rules) ==
    IF rules = <<>> THEN <<>>
    ELSE (IF rules[1].points > 0 THEN rules[1].findings ELSE <<>>)
         \o RuleFindingsPositive(Tail(rules))

RECURSIVE RuleFindings(_)
RuleFindings(rules) ==
    IF rules = <<>> THEN <<>> ELSE rules[1].findings \o RuleFindings(Tail(rules))

\* a variant of the clamp with a ceiling of 90
ClampNinety(score) == IF score > 90 THEN 90 ELSE IF score < 0 THEN 0 ELSE score

\* max(0, min(100, score))
Clamp(score) == IF score > 100 THEN 100 ELSE IF score < 0 THEN 0 ELSE score

\* the result a rule-based scorer builds from its baseline and rules
Scored(agent_name, baseline, rules, summary) ==
    AgentResult(agent_name, 10 * Clamp(baseline + RulePoints(rules)),
                PyList(RuleFindings(rules)), summary)

(***************************************************************************)
(* The rule-based scorers (_fallback of each agent module)                 *)
(***************************************************************************)
TEXT_AGENT_NAME == "Content Quality"
VISUAL_AGENT_NAME == "Visual Quality"
UX_AGENT_NAME == "User Experience"
TRUST_AGENT_NAME == "Trust & Credibility"
TECH_AGENT_NAME == "Technical Health"

\* a variant in which every scorer starts from 30
BaselineThirty(key) == 30

\* the score each _fallback starts from
Baseline(key) ==
    CASE key = "text" -> 30 [] key = "visual" -> 30 [] key = "ux" -> 30
      [] key = "trust" -> 20 [] key = "tech" -> 20

Finding(chunks) == <<PyStr(chunks)>>
YesNo(b) == IF b THEN "yes" ELSE "no"

\* sum(len(v) for v in page_data.headings.values())
HeadingCount(pd) ==
    Len(pd.headings.h1) + Len(pd.headings.h2) + Len(pd.headings.h3)
    + Len(pd.headings.h4) + Len(pd.headings.h5) + Len(pd.headings.h6)

\* a string of 61 characters and its first 60 and 50
Long61 == "A123456789B123456789C123456789D123456789E123456789F123456789G"
Long60 == "A123456789B123456789C123456789D123456789E123456789F123456789"
Long50 == "A123456789B123456789C123456789D123456789E123456789"

\* s[:n] for n = 50 and n = 60; every other string of the snapshots is shorter
\* than 50 characters
Prefix(s, n) ==
    IF s \in {Long61, Long60} /\ n = 50 THEN Long50
    ELSE IF s = Long61 /\ n = 60 THEN Long60
    ELSE s

\* the rules of text_agent._fallback, in the order the code applies them
text_agent_rules(pd) ==
    LET text_len == pd.text_len
        heading_count == HeadingCount(pd)
    IN <<
          IF text_len > 2000
          THEN Rule(20, Finding(<<"Good content volume (", ToString(text_len), " characters)">>))
          ELSE IF text_len > 500
          THEN Rule(10, Finding(<<"Moderate content volume (", ToString(text_len), " characters)">>))
          ELSE Rule(0, Finding(<<"Very thin content (", ToString(text_len), " characters)">>)),
          IF pd.title # ""
          THEN Rule(10, Finding(<<"Page title present: \"", Prefix(pd.title, 60), "\"">>))
          ELSE Rule(0 - 10, Finding(<<"Missing page title">>)),
          IF pd.meta_description # ""
          THEN Rule(10, Finding(<<"Meta description present">>))
          ELSE Rule(0, Finding(<<"Missing meta description">>)),
          IF pd.headings.h1 # <<>>
          THEN Rule(10, Finding(<<"H1 heading found: \"", Prefix(pd.headings.h1[1], 60), "\"">>))
          ELSE Rule(0, Finding(<<"No H1 heading found">>)),
          IF heading_count >= 3
          THEN Rule(5, Finding(<<ToString(heading_count), " headings provide good structure">>))
          ELSE Rule(0, <<>>) >>

text_agent_fallback(pd) ==
    LET text_len == pd.text_len
        heading_count == HeadingCount(pd)
    IN Scored(TEXT_AGENT_NAME, Baseline("text"), text_agent_rules(pd),
              PyStr(<<"Rule-based", " analysis: ", ToString(text_len),
                      " chars of content evaluated.">>))

\* number of images with a non-blank alt text
AltCount(pd) == Cardinality({i \in 1..Len(pd.image_alts) : pd.image_alts[i]})

\* the rules of visual_agent._fallback, in the order the code applies them
visual_agent_rules(pd) ==
    LET image_count == Len(pd.image_alts)
        alt_count == AltCount(pd)
        pct == RoundDiv(alt_count * 100, image_count)
    IN <<
          IF image_count = 0
          THEN Rule(0 - 10, Finding(<<"No images found on page">>))
          ELSE IF image_count <= 2
          THEN Rule(10, Finding(<<ToString(image_count), " image(s) found -- minimal visuals">>))
          ELSE Rule(20, Finding(<<ToString(image_count), " images found -- good visual presence">>)),
          IF image_count > 0
          THEN IF pct = 100
               THEN Rule(20, Finding(<<"All ", ToString(image_count), " images have alt-text [check]">>))
               ELSE IF pct >= 50
               THEN Rule(10, Finding(<<ToString(alt_count), "/", ToString(image_count),
                                       " images have alt-text (", ToString(pct), "%)">>))
               ELSE Rule(0, Finding(<<"Only ", ToString(alt_count), "/", ToString(image_count),
                                      " images have alt-text (", ToString(pct),
                                      "%) -- poor accessibility">>))
          ELSE Rule(0, <<>>) >>

visual_agent_fallback(pd) ==
    LET image_count == Len(pd.image_alts)
        alt_count == AltCount(pd)
        pct == RoundDiv(alt_count * 100, image_count)
    IN Scored(VISUAL_AGENT_NAME, Baseline("visual"), visual_agent_rules(pd),
              PyStr(<<"Rule-based", " analysis: ", ToString(image_count), " image(s), ",
                      ToString(alt_count), " with alt-text.">>))

\* the rules of ux_agent._fallback, in the order the code applies them
ux_agent_rules(pd) ==
    LET h1s == pd.headings.h1
        h2s == pd.headings.h2
        int_links == pd.internal_links
        lt == pd.load_time_seconds
    IN <<
          IF Len(h1s) = 1
          THEN Rule(10, Finding(<<"Single H1 heading present: \"", Prefix(h1s[1], 50), "\"">>))
          ELSE IF Len(h1s) > 1
          THEN Rule(5, Finding(<<"Multiple H1 headings (", ToString(Len(h1s)),
                                 ") -- should have exactly one">>))
          ELSE Rule(0, Finding(<<"No H1 heading -- poor hierarchy">>)),
          IF h2s # <<>>
          THEN Rule(5, Finding(<<ToString(Len(h2s)), " H2 subheadings found">>))
          ELSE Rule(0, <<>>),
          IF pd.has_viewport_meta
          THEN Rule(15, Finding(<<"Viewport meta tag present -- mobile-friendly [check]">>))
          ELSE Rule(0, Finding(<<"No viewport meta tag -- not mobile-optimized">>)),
          IF pd.has_lang_attr
          THEN Rule(5, Finding(<<"Language attribute set [check]">>))
          ELSE Rule(0, <<>>),
          IF int_links >= 10
          THEN Rule(10, Finding(<<ToString(int_links), " internal links -- good navigation">>))
          ELSE IF int_links >= 3
          THEN Rule(5, Finding(<<ToString(int_links), " internal links -- moderate navigation">>))
          ELSE Rule(0, Finding(<<"Only ", ToString(int_links), " internal links -- weak navigation">>)),
          IF lt < 200
          THEN Rule(10, Finding(<<"Fast load time (", HundredthsStr(lt), "s)">>))
          ELSE IF lt < 500
          THEN Rule(5, Finding(<<"Acceptable load time (", HundredthsStr(lt), "s)">>))
          ELSE Rule(0, Finding(<<"Slow load time (", HundredthsStr(lt), "s)">>)) >>

ux_agent_fallback(pd) ==
    LET h1s == pd.headings.h1
        h2s == pd.headings.h2
        int_links == pd.internal_links
        lt == pd.load_time_seconds
    IN Scored(UX_AGENT_NAME, Baseline("ux"), ux_agent_rules(pd),
              PyStr(<<"Rule-based", " analysis: ", ToString(int_links), " links, viewport=",
                      YesNo(pd.has_viewport_meta), ", load=", HundredthsStr(lt), "s.">>))

\* the rules of trust_agent._fallback, in the order the code applies them
trust_agent_rules(pd) ==
    LET social_count == pd.social_links
    IN <<
          IF pd.has_ssl
          THEN Rule(20, Finding(<<"HTTPS / SSL enabled [check]">>))
          ELSE Rule(0, Finding(<<"No HTTPS -- major trust concern">>)),
          IF pd.has_privacy_policy
          THEN Rule(15, Finding(<<"Privacy policy detected [check]">>))
          ELSE Rule(0, Finding(<<"No privacy policy found">>)),
          IF pd.has_contact_info
          THEN Rule(15, Finding(<<"Contact information detected [check]">>))
          ELSE Rule(0, Finding(<<"No contact information found">>)),
          IF social_count >= 2
          THEN Rule(10, Finding(<<ToString(social_count),
                                  " social media links -- good legitimacy signal">>))
          ELSE IF social_count = 1
          THEN Rule(5, Finding(<<"1 social media link found">>))
          ELSE Rule(0, Finding(<<"No social media links">>)),
          IF pd.has_structured_data
          THEN Rule(10, Finding(<<"Structured data (schema.org) present [check]">>))
          ELSE Rule(0, <<>>),
          IF pd.title # "" /\ pd.meta_description # ""
          THEN Rule(5, Finding(<<"Professional title and meta description present">>))
          ELSE Rule(0, <<>>) >>

trust_agent_fallback(pd) ==
    LET social_count == pd.social_links
    IN Scored(TRUST_AGENT_NAME, Baseline("trust"), trust_agent_rules(pd),
              PyStr(<<"Rule-based", " analysis: SSL=", YesNo(pd.has_ssl), ", privacy=",
                      YesNo(pd.has_privacy_policy), ", contact=",
                      YesNo(pd.has_contact_info), ".">>))

\* the rules of tech_agent._fallback, in the order the code applies them
tech_agent_rules(pd) ==
    LET lt == pd.load_time_seconds
        size == pd.html_size_kb
    IN <<
          IF lt < 100
          THEN Rule(15, Finding(<<"Excellent load time (", HundredthsStr(lt), "s)">>))
          ELSE IF lt < 200
          THEN Rule(12, Finding(<<"Good load time (", HundredthsStr(lt), "s)">>))
          ELSE IF lt < 500
          THEN Rule(5, Finding(<<"Moderate load time (", HundredthsStr(lt), "s)">>))
          ELSE Rule(0, Finding(<<"Slow load time (", HundredthsStr(lt), "s)">>)),
          IF size < 1000
          THEN Rule(10, Finding(<<"Lightweight page (", TenthsStr(size), " KB)">>))
          ELSE IF size < 5000
          THEN Rule(5, Finding(<<"Moderate page size (", TenthsStr(size), " KB)">>))
          ELSE Rule(0, Finding(<<"Heavy page (", TenthsStr(size), " KB)">>)),
          IF pd.has_ssl THEN Rule(10, Finding(<<"HTTPS enabled [check]">>)) ELSE Rule(0, <<>>),
          IF pd.title # ""
          THEN Rule(5, Finding(<<"Title tag present [check]">>))
          ELSE Rule(0, Finding(<<"Missing title tag">>)),
          IF pd.meta_description # ""
          THEN Rule(5, Finding(<<"Meta description present [check]">>))
          ELSE Rule(0, Finding(<<"Missing meta description">>)),
          IF pd.has_viewport_meta
          THEN Rule(5, Finding(<<"Viewport meta present [check]">>)) ELSE Rule(0, <<>>),
          IF pd.has_charset
          THEN Rule(3, Finding(<<"Charset declared [check]">>)) ELSE Rule(0, <<>>),
          IF pd.has_lang_attr
          THEN Rule(3, Finding(<<"Language attribute set [check]">>)) ELSE Rule(0, <<>>),
          IF pd.has_favicon
          THEN Rule(3, Finding(<<"Favicon present [check]">>)) ELSE Rule(0, <<>>),
          IF pd.has_structured_data
          THEN Rule(5, Finding(<<"Structured data found [check]">>)) ELSE Rule(0, <<>>),
          IF pd.scripts_count > 20
          THEN Rule(0 - 5, Finding(<<"High script count (", ToString(pd.scripts_count), ")">>))
          ELSE IF pd.scripts_count > 0
          THEN Rule(0, Finding(<<ToString(pd.scripts_count), " scripts loaded">>))
          ELSE Rule(0, <<>>) >>

tech_agent_fallback(pd) ==
    LET lt == pd.load_time_seconds
        size == pd.html_size_kb
    IN Scored(TECH_AGENT_NAME, Baseline("tech"), tech_agent_rules(pd),
              PyStr(<<"Rule-based", " analysis: load=", HundredthsStr(lt), "s, size=",
                      TenthsStr(size), "KB, ", ToString(pd.scripts_count), " scripts.">>))

(***************************************************************************)
(* The agents (analyze of each agent module)                               *)
(***************************************************************************)
\* what one external call does: it raises, or it returns a response text
Raised == [raised |-> TRUE, text |-> <<>>]
Returned(text) == [raised |-> FALSE, text |-> text]

\* The body of the try block shared by the agents: parse the response and
\* read score, findings and summary.  ok = FALSE when the call raised, when
\* the condition "data and 'score' in data" is false, or when parse_json,
\* evaluating the condition, data["score"] or float() raises.
NoReply == [ok |-> FALSE, score |-> 0, findings |-> PyList(<<>>), summary |-> PyStr(<<>>)]
\* a variant of the try block that reads the score with a default:
\* float(data.get("score", 50))
ReadReplyDefaultScore(data) ==
    LET item == IF data.t = "dict" THEN DictGet(data, "score", PyInt(50))
                ELSE PyExc("AttributeError")
        score == PyFloatOf(item)
    IN IF IsExc(data) THEN NoReply
       ELSE IF ~PyTruthy(data) THEN NoReply
       ELSE IF IsExc(score) THEN NoReply
       ELSE [ok |-> TRUE, score |-> score.v,
             findings |-> DictGet(data, "findings", PyList(<<>>)),
             summary |-> DictGet(data, "summary", PyStr(<<>>))]
LLMReplyDefaultScore(outcome) ==
    IF outcome.raised THEN NoReply ELSE ReadReplyDefaultScore(parse_json(outcome.text))

\* data is what parse_json gave
ReadReply(data) ==
    LET has == PyIn("score", data)
        item == PyGetItem(data, "score")
        score == PyFloatOf(item)
    IN IF IsExc(data) THEN NoReply
       ELSE IF ~PyTruthy(data) THEN NoReply
       ELSE IF has.exc \/ ~has.val THEN NoReply
       ELSE IF IsExc(item) \/ IsExc(score) THEN NoReply
       ELSE [ok |-> TRUE, score |-> score.v,
             findings |-> DictGet(data, "findings", PyList(<<>>)),
             summary |-> DictGet(data, "summary", PyStr(<<>>))]
LLMReply(outcome) ==
    IF outcome.raised THEN NoReply ELSE ReadReply(parse_json(outcome.text))

\* what analyze hands back: an AgentResult, or an exception that leaves it.
\* path records which return statement produced the result.
NoResult == AgentResult("", 0, PyList(<<>>), PyStr(<<>>))
Return(path, result) == [raised |-> FALSE, path |-> path, result |-> result]
Raise == [raised |-> TRUE, path |-> "raise", result |-> NoResult]

\* analyze of the text, ux, trust and tech agents
SingleResult(agent_name, fallback, reply) ==
    IF reply.ok
    THEN Return("llm", AgentResult(agent_name, reply.score, reply.findings, reply.summary))
    ELSE Return("fallback", fallback)
SingleAnalyze(agent_name, fallback, outcome) ==
    SingleResult(agent_name, fallback, LLMReply(outcome))

text_agent_analyze(pd, outcome) ==
    SingleAnalyze(TEXT_AGENT_NAME, text_agent_fallback(pd), outcome)
ux_agent_analyze(pd, outcome) ==
    SingleAnalyze(UX_AGENT_NAME, ux_agent_fallback(pd), outcome)
trust_agent_analyze(pd, outcome) ==
    SingleAnalyze(TRUST_AGENT_NAME, trust_agent_fallback(pd), outcome)
tech_agent_analyze(pd, outcome) ==
    SingleAnalyze(TECH_AGENT_NAME, tech_agent_fallback(pd), outcome)

\* LLMRouter.analyze_images_batch: downloaded is the set of images that
\* _download_image could fetch; with none, the error text is returned and no
\* request is sent
NoImagesText == <<"{", "\"error\"", ":", " ", "\"No images could be downloaded\"", "}">>
analyze_images_batch(downloaded, outcome) ==
    IF downloaded = {} THEN Returned(NoImagesText) ELSE outcome
\* a variant that sends the request also when parts holds the prompt alone
BatchPartsAlways(downloaded) == <<downloaded>>
\* the generate_content requests analyze_images_batch sends, each with the
\* images it carries after the prompt
BatchParts(downloaded) == IF downloaded = {} THEN <<>> ELSE <<downloaded>>
\* the _track_usage calls of a request that was sent: one when it returned its
\* text; when it raised, none if generate_content raised and one if reading
\* response.text raised
NoneTracked == [text |-> 0, vision |-> 0]
Tracked(outcome) == IF outcome.raised THEN {0, 1} ELSE {1}

\* the phases of the visual agent: a phase yields a score and findings, or
\* leaves the score None (ok = FALSE) and the findings empty
VisualMetaPhase(outcome) == LLMReply(outcome)
VisualVisionPhase(pd, downloaded, outcome) ==
    IF pd.image_alts # <<>>
    THEN LLMReply(analyze_images_batch(downloaded, outcome))
    ELSE NoReply

\* a variant of the blend with the two weights exchanged
BlendSwapped(vision_score, meta_score) == RoundDiv(4 * vision_score + 6 * meta_score, 10)

\* round(vision_score * 0.6 + meta_score * 0.4, 1), scores in tenths
BlendScore(vision_score, meta_score) == RoundDiv(6 * vision_score + 4 * meta_score, 10)

VisualSummary(pd, final_score) ==
    PyStr(<<"Visual score ", TenthsStr(final_score), "/100 based on ",
            ToString(Len(pd.image_alts)), " image(s).">>)

\* the local final_score of visual_agent.analyze; None when no phase succeeded
VisualFinalScore(meta, vision) ==
    IF meta.ok /\ vision.ok THEN PyFloat(BlendScore(vision.score, meta.score))
    ELSE IF vision.ok THEN PyFloat(vision.score)
    ELSE IF meta.ok THEN PyFloat(meta.score)
    ELSE PyNone

\* the end of visual_agent.analyze: the final score from whatever succeeded
VisualBlend(pd, meta, vision) ==
    IF meta.ok /\ vision.ok
    THEN LET final_score == VisualFinalScore(meta, vision).v
             all_findings == PyAdd(meta.findings, vision.findings)
         IN IF IsExc(all_findings) THEN Raise
            ELSE Return("blend", AgentResult(VISUAL_AGENT_NAME, final_score, all_findings,
                                             VisualSummary(pd, final_score)))
    ELSE IF vision.ok
    THEN Return("vision", AgentResult(VISUAL_AGENT_NAME, vision.score, vision.findings,
                                      VisualSummary(pd, vision.score)))
    ELSE IF meta.ok
    THEN Return("meta", AgentResult(VISUAL_AGENT_NAME, meta.score, meta.findings,
                                    VisualSummary(pd, meta.score)))
    ELSE Return("fallback", visual_agent_fallback(pd))

visual_agent_analyze(pd, meta_outcome, downloaded, vision_outcome) ==
    VisualBlend(pd, VisualMetaPhase(meta_outcome),
                VisualVisionPhase(pd, downloaded, vision_outcome))

AgentKeys == <<"text", "visual", "ux", "trust", "tech">>
SingleKeys == {"text", "ux", "trust", "tech"}

\* agent_map: the analyze of the single-call agent registered under key
AgentAnalyze(key, pd, outcome) ==
    CASE key = "text" -> text_agent_analyze(pd, outcome)
      [] key = "ux" -> ux_agent_analyze(pd, outcome)
      [] key = "trust" -> trust_agent_analyze(pd, outcome)
      [] key = "tech" -> tech_agent_analyze(pd, outcome)

AgentFallback(key, pd) ==
    CASE key = "text" -> text_agent_fallback(pd)
      [] key = "visual" -> visual_agent_fallback(pd)
      [] key = "ux" -> ux_agent_fallback(pd)
      [] key = "trust" -> trust_agent_fallback(pd)
      [] key = "tech" -> tech_agent_fallback(pd)

AgentRules(key, pd) ==
    CASE key = "text" -> text_agent_rules(pd)
      [] key = "visual" -> visual_agent_rules(pd)
      [] key = "ux" -> ux_agent_rules(pd)
      [] key = "trust" -> trust_agent_rules(pd)
      [] key = "tech" -> tech_agent_rules(pd)

\* the value of score in _fallback just before max(0, min(100, score))
Unclamped(key, pd) == Baseline(key) + RulePoints(AgentRules(key, pd))

(***************************************************************************)
(* Snapshots and responses given to one analyze call                       *)
(***************************************************************************)
\* a page with every trust signal, three images with alt text
RichPage ==
    [PageData EXCEPT !.title = "Acme", !.meta_description = "Acme tools",
                     !.text_len = 2500, !.image_alts = <<TRUE, TRUE, TRUE>>,
                     !.internal_links = 12, !.external_links = 4,
                     !.headings = [PageData.headings EXCEPT !.h1 = <<"Acme">>,
                                                            !.h2 = <<"Tools", "Prices">>],
                     !.has_ssl = TRUE, !.has_viewport_meta = TRUE, !.has_charset = TRUE,
                     !.has_lang_attr = TRUE, !.has_favicon = TRUE,
                     !.has_structured_data = TRUE, !.has_privacy_policy = TRUE,
                     !.has_contact_info = TRUE, !.social_links = 3, !.forms_count = 1,
                     !.scripts_count = 4, !.stylesheets_count = 2,
                     !.html_size_kb = 425, !.load_time_seconds = 85]
\* a slow, heavy page with one image without alt text
PoorPage ==
    [PageData EXCEPT !.text_len = 600, !.image_alts = <<FALSE>>,
                     !.internal_links = 3, !.social_links = 1, !.scripts_count = 25,
                     !.html_size_kb = 6000, !.load_time_seconds = 512]
Snapshots == {PageData, RichPage, PoorPage}

\* Snapshots given to one call of a rule-based scorer: every combination of the
\* fields that scorer reads, each field on both sides of each threshold
BoolSeqs(n) == UNION {[1..m -> BOOLEAN] : m \in 0..n}
HeadingSets ==
    {[PageData.headings EXCEPT !.h1 = a, !.h2 = b] :
        a \in {<<>>, <<"Acme">>, <<"Acme", "Tools">>}, b \in {<<>>, <<"Tools", "Prices">>}}
    \cup {[PageData.headings EXCEPT !.h1 = <<Long61>>],
          [PageData.headings EXCEPT !.h1 = <<"Acme">>, !.h4 = <<"Tools", "Prices">>],
          [PageData.headings EXCEPT !.h2 = <<"Tools">>, !.h5 = <<"Prices">>,
                                    !.h6 = <<"Acme">>]}
LoadTimes == {50, 99, 100, 150, 200, 300, 500, 512}
TextSnapshots ==
    {[PageData EXCEPT !.text_len = n, !.title = t, !.meta_description = m, !.headings = h] :
        n \in {0, 500, 501, 2000, 2001}, t \in {"", "Acme", Long61}, m \in {"", "Acme tools"},
        h \in HeadingSets}
VisualSnapshots == {[PageData EXCEPT !.image_alts = a] : a \in BoolSeqs(MAX_IMAGES)}
UxSnapshots ==
    {[PageData EXCEPT !.headings = h, !.has_viewport_meta = v, !.has_lang_attr = l,
                      !.internal_links = n, !.load_time_seconds = lt] :
        h \in HeadingSets, v \in BOOLEAN, l \in BOOLEAN, n \in {0, 2, 3, 9, 10},
        lt \in LoadTimes}
TrustSnapshots ==
    {[PageData EXCEPT !.has_ssl = a, !.has_privacy_policy = b, !.has_contact_info = c,
                      !.social_links = n, !.has_structured_data = d, !.title = t,
                      !.meta_description = m] :
        a \in BOOLEAN, b \in BOOLEAN, c \in BOOLEAN, n \in {0, 1, 2}, d \in BOOLEAN,
        t \in {"", "Acme"}, m \in {"", "Acme tools"}}
TechFlags == [ssl : BOOLEAN, viewport : BOOLEAN, charset : BOOLEAN, lang : BOOLEAN,
              favicon : BOOLEAN, structured : BOOLEAN]
TechSnapshots ==
    {[PageData EXCEPT !.load_time_seconds = lt, !.html_size_kb = kb, !.has_ssl = f.ssl,
                      !.has_viewport_meta = f.viewport, !.has_charset = f.charset,
                      !.has_lang_attr = f.lang, !.has_favicon = f.favicon,
                      !.has_structured_data = f.structured, !.title = t,
                      !.meta_description = t, !.scripts_count = n] :
        lt \in {50, 100, 200, 500}, kb \in {0, 999, 1000, 4999, 5000},
        f \in TechFlags, t \in {"", "Acme"}, n \in {0, 1, 20, 21}}
ScorerSnapshots(key) ==
    Snapshots \cup
    CASE key = "text" -> TextSnapshots [] key = "visual" -> VisualSnapshots
      [] key = "ux" -> UxSnapshots [] key = "trust" -> TrustSnapshots
      [] key = "tech" -> TechSnapshots

AgentTexts == Replies \cup OtherBodies \cup {FencedJson(b) : b \in OtherBodies}
AgentOutcomes == {Raised} \cup {Returned(t) : t \in AgentTexts}

\* responses of the vision request
VisionTexts ==
    {Reply(sc, fi, <<>>) : sc \in {<<>>, <<"6", "0">>, <<"8", "0">>, <<"1", "5", "0">>, <<"\"85\"">>, <<"null">>},
                          fi \in FindingsTexts}
    \cup {<<"Here", " ", "is">>, FencedJson(Reply(<<"6", "0">>, <<"[", "\"y\"", "]">>, <<>>))}
VisionOutcomes == {Raised} \cup {Returned(t) : t \in VisionTexts}

(***************************************************************************)
(* State                                                                   *)
(***************************************************************************)
VARIABLES
    \* one call of parse_json
    p_text,      \* the text given to parse_json
    p_pc,        \* "run", "returned", "raised"; "off" outside the parser specification
    p_tier,      \* index in TierOrder of the extraction to try next
    p_tried,     \* history: the extractions tried so far, with their outcome
    p_result,    \* the value returned, or the exception raised
    \* one call of an agent's analyze
    a_agent,     \* key of the agent
    a_pd,        \* the snapshot
    a_pc,        \* "start", "vision", "blend", "done"; "scorer", "scored" for one
                 \* call of a rule-based scorer; "off" outside
    a_outcome,   \* what the text request did
    a_downloaded, \* the images the vision batch could download
    a_voutcome,  \* what the vision request did
    a_parts,     \* history: the image sets of the vision requests sent
    a_tracked,   \* history: _track_usage calls made for the text and vision requests
    a_meta,      \* visual agent: meta_score and meta_findings
    a_vision,    \* visual agent: vision_score and vision_findings
    a_final,     \* visual agent: the local final_score, None until assigned
    a_ret,       \* what analyze handed back
    \* one call of calculate_ceps_score
    s_scores,    \* the scores of the five results, in tenths
    s_pc,        \* "start", "done"; "off" outside
    s_overall,   \* the overall score returned, in tenths
    s_grade,     \* the grade returned
    \* one run of main and _run_analysis
    caller,      \* who called _run_analysis: main, or other code directly
    key_set,     \* GEMINI_API_KEY is configured
    url_given,   \* the URL field is not empty
    pc,          \* position of the main thread; "off" outside
    error,       \* the exception that left _run_analysis, "" if none
    page_data,   \* the snapshot parse_html built
    queue,       \* the pool's work queue: keys of the submitted, not yet taken
    fut_state,   \* per key: "new", "pending", "running", "finished"
    fut_ret,     \* per key: what analyze handed back, once finished
    w_task,      \* per worker: the key it is running, or "idle"
    w_pc,        \* per worker: position inside analyze
    w_resp,      \* per worker: the response being tracked, if any
    w_read,      \* per worker: the counters it read inside _track_usage, if any
    v_meta,      \* visual agent locals: the metadata phase
    v_vision,    \* visual agent locals: the vision phase
    v_imgs,      \* analyze_images_batch: per URL tried, whether its image came
    lock,        \* LLMRouter._lock: the worker holding it, or 0 when free
    llm,         \* LLMRouter counters
    sent,        \* history: generate_content requests sent, per label
    answered,    \* history: responses generate_content returned, and their tokens
    heard,       \* history: what each request did as its agent saw it, per label
    runs,        \* history: times analyze was started, per key
    yielded,     \* futures as_completed has yielded
    results,     \* the results dict
    done_count,
    progress,    \* values given to the progress bar, in order
    fallback_agents,
    overall,
    grade,
    usage,       \* the dict get_usage_summary returned
    session,     \* st.session_state["ceps_result"], or "empty"
    \* calls of LLMRouter.analyze_image by threads outside the pipeline
    im_pc,       \* per caller: position inside analyze_image; "off" outside
    im_resp,     \* per caller: the response generate_content returned, if any
    im_read,     \* per caller: the counters it read inside _track_usage, if any
    im_ret       \* per caller: what analyze_image handed back

parserVars == <<p_text, p_pc, p_tier, p_tried, p_result>>
agentVars == <<a_agent, a_pd, a_pc, a_outcome, a_downloaded, a_voutcome, a_parts,
               a_tracked, a_meta,
               a_vision, a_final, a_ret>>
scoreVars == <<s_scores, s_pc, s_overall, s_grade>>
mainVars == <<caller, key_set, url_given, pc, error, page_data, yielded, results, done_count,
              progress, fallback_agents, overall, grade, usage, session>>
poolVars == <<queue, fut_state, fut_ret, w_task, w_pc, w_resp, w_read, v_meta, v_vision,
              v_imgs, lock, llm, sent, answered, heard, runs>>
imageVars == <<im_pc, im_resp, im_read, im_ret>>
runVars == <<mainVars, poolVars, imageVars>>

ParserOff ==
    p_text = <<>> /\ p_pc = "off" /\ p_tier = 1 /\ p_tried = <<>> /\ p_result = PyNone
ScoreOff ==
    /\ s_scores = [k \in {"text", "visual", "ux", "trust", "tech"} |-> 0]
    /\ s_pc = "off" /\ s_overall = 0 /\ s_grade = ""
AgentOff ==
    /\ a_agent = "text" /\ a_pd = PageData /\ a_pc = "off"
    /\ a_outcome = Raised /\ a_downloaded = {} /\ a_voutcome = Raised
    /\ a_parts = <<>> /\ a_tracked = NoneTracked
    /\ a_meta = NoReply /\ a_vision = NoReply /\ a_final = PyNone /\ a_ret = Raise

(***************************************************************************)
(* parse_json, one extraction per step                                     *)
(***************************************************************************)
ParserStart ==
    p_text \in Texts /\ p_pc = "run" /\ p_tier = 1 /\ p_tried = <<>> /\ p_result = PyNone

\* try the extraction at p_tier: return its value, or go on to the next one,
\* or return None after the last one; a RecursionError leaves parse_json
TierDone(name, r) ==
    /\ p_tried' = Append(p_tried, [tier |-> name, ok |-> r.ok])
    /\ IF r.exc
       THEN p_pc' = "raised" /\ p_result' = PyExc("RecursionError") /\ UNCHANGED p_tier
       ELSE IF r.ok
       THEN p_pc' = "returned" /\ p_result' = r.val /\ UNCHANGED p_tier
       ELSE IF p_tier = Len(TierOrder)
       THEN p_pc' = "returned" /\ p_result' = PyNone /\ UNCHANGED p_tier
       ELSE p_tier' = p_tier + 1 /\ UNCHANGED <<p_pc, p_result>>

TryTier(name) ==
    /\ p_pc = "run"
    /\ TierOrder[p_tier] = name
    /\ TierDone(name, Tier(name, p_text))
    /\ UNCHANGED p_text

TryDirect == TryTier("direct") /\ UNCHANGED <<agentVars, scoreVars, runVars>>
TryFence == TryTier("fence") /\ UNCHANGED <<agentVars, scoreVars, runVars>>
TryBrace == TryTier("brace") /\ UNCHANGED <<agentVars, scoreVars, runVars>>

(***************************************************************************)
(* One analyze call                                                        *)
(***************************************************************************)
AgentStart ==
    /\ a_agent \in {"text", "visual", "ux", "trust", "tech"}
    /\ a_pd \in Snapshots
    /\ a_pc = "start"
    /\ a_outcome = Raised /\ a_downloaded = {} /\ a_voutcome = Raised
    /\ a_parts = <<>> /\ a_tracked = NoneTracked
    /\ a_meta = NoReply /\ a_vision = NoReply /\ a_final = PyNone /\ a_ret = Raise

\* analyze of a single-call agent: one request, then the result
SingleCall ==
    /\ a_pc = "start" /\ a_agent \in SingleKeys
    /\ \E o \in AgentOutcomes :
          /\ a_outcome' = o
          /\ a_tracked' \in {[a_tracked EXCEPT !.text = n] : n \in Tracked(o)}
          /\ a_ret' = AgentAnalyze(a_agent, a_pd, o)
    /\ a_pc' = "done"
    /\ UNCHANGED <<a_agent, a_pd, a_downloaded, a_voutcome, a_parts, a_meta, a_vision,
                   a_final>>
    /\ UNCHANGED <<parserVars, scoreVars, runVars>>

\* visual agent, part 1: the metadata request
VisualMeta ==
    /\ a_pc = "start" /\ a_agent = "visual"
    /\ \E o \in VisionOutcomes :
          /\ a_outcome' = o
          /\ a_tracked' \in {[a_tracked EXCEPT !.text = n] : n \in Tracked(o)}
          /\ a_meta' = VisualMetaPhase(o)
    /\ a_pc' = "vision"
    /\ UNCHANGED <<a_agent, a_pd, a_downloaded, a_voutcome, a_parts, a_vision, a_final,
                   a_ret>>
    /\ UNCHANGED <<parserVars, scoreVars, runVars>>

\* visual agent, part 2: the image batch, only when the page has images
VisualVision ==
    /\ a_pc = "vision"
    /\ IF a_pd.image_alts # <<>>
       THEN \E d \in SUBSET (1..Len(a_pd.image_alts)) :
            \E o \in IF BatchParts(d) = <<>> THEN {Raised} ELSE VisionOutcomes :
               /\ a_downloaded' = d
               /\ a_voutcome' = o
               /\ a_parts' = BatchParts(d)
               /\ a_tracked' \in IF BatchParts(d) = <<>> THEN {a_tracked}
                                 ELSE {[a_tracked EXCEPT !.vision = n] : n \in Tracked(o)}
               /\ a_vision' = VisualVisionPhase(a_pd, d, o)
       ELSE UNCHANGED <<a_downloaded, a_voutcome, a_parts, a_tracked, a_vision>>
    /\ a_pc' = "blend"
    /\ UNCHANGED <<a_agent, a_pd, a_outcome, a_meta, a_final, a_ret>>
    /\ UNCHANGED <<parserVars, scoreVars, runVars>>

\* visual agent: the final score from whatever succeeded
VisualFinal ==
    /\ a_pc = "blend"
    /\ a_final' = VisualFinalScore(a_meta, a_vision)
    /\ a_ret' = VisualBlend(a_pd, a_meta, a_vision)
    /\ a_pc' = "done"
    /\ UNCHANGED <<a_agent, a_pd, a_outcome, a_downloaded, a_voutcome, a_parts, a_tracked,
                   a_meta, a_vision>>
    /\ UNCHANGED <<parserVars, scoreVars, runVars>>

(***************************************************************************)
(* One call of a rule-based scorer                                         *)
(***************************************************************************)
ScorerStart ==
    /\ a_agent \in {"text", "visual", "ux", "trust", "tech"}
    /\ a_pd \in ScorerSnapshots(a_agent)
    /\ a_pc = "scorer"
    /\ a_outcome = Raised /\ a_downloaded = {} /\ a_voutcome = Raised
    /\ a_parts = <<>> /\ a_tracked = NoneTracked
    /\ a_meta = NoReply /\ a_vision = NoReply /\ a_final = PyNone /\ a_ret = Raise

\* _fallback(page_data) of the agent
RunFallback ==
    /\ a_pc = "scorer"
    /\ a_ret' = Return("fallback", AgentFallback(a_agent, a_pd))
    /\ a_pc' = "scored"
    /\ UNCHANGED <<a_agent, a_pd, a_outcome, a_downloaded, a_voutcome, a_parts, a_tracked,
                   a_meta, a_vision,
                   a_final>>
    /\ UNCHANGED <<parserVars, scoreVars, runVars>>

(***************************************************************************)
(* core/scoring.py                                                         *)
(***************************************************************************)
\* a variant of the weight table that gives text 0.30
WeightsTextHeavy == [text |-> 30, visual |-> 15, ux |-> 25, trust |-> 20, tech |-> 15]

\* WEIGHTS, in hundredths
WEIGHTS == [text |-> 25, visual |-> 15, ux |-> 25, trust |-> 20, tech |-> 15]

\* the weighted sum of calculate_ceps_score before rounding, in thousandths
\* (scores in tenths, weights in hundredths)
WeightedSum(scores) ==
    scores.text * WEIGHTS.text + scores.visual * WEIGHTS.visual
    + scores.ux * WEIGHTS.ux + scores.trust * WEIGHTS.trust
    + scores.tech * WEIGHTS.tech

\* round(overall, 1), in tenths.  When the decimal value lies exactly half way
\* between two tenths, the result depends on the binary floating-point error of
\* the sum and can be either neighbour.
RoundOverall(sum) ==
    IF sum % 100 = 50 THEN {sum \div 100, sum \div 100 + 1}
    ELSE {RoundDiv(sum, 100)}

\* a variant of the grade mapping with exclusive lower bounds
GradeExclusive(score) ==
    IF score > 900 THEN "A+"
    ELSE IF score > 800 THEN "A"
    ELSE IF score > 700 THEN "B"
    ELSE IF score > 600 THEN "C"
    ELSE IF score > 500 THEN "D"
    ELSE "F"

get_grade(score) ==
    IF score >= 900 THEN "A+"
    ELSE IF score >= 800 THEN "A"
    ELSE IF score >= 700 THEN "B"
    ELSE IF score >= 600 THEN "C"
    ELSE IF score >= 500 THEN "D"
    ELSE "F"

\* the pairs (overall, grade) calculate_ceps_score can return
calculate_ceps_score(scores) ==
    {<<o, get_grade(o)>> : o \in RoundOverall(WeightedSum(scores))}

\* scores given to one call of the aggregator, in tenths
ScoreValues == {0 - 50, 0, 499, 500, 684, 899, 900, 1000, 1500}

ScoreStart ==
    /\ s_scores \in [{"text", "visual", "ux", "trust", "tech"} -> ScoreValues]
    /\ s_pc = "start" /\ s_overall = 0 /\ s_grade = ""

Aggregate ==
    /\ s_pc = "start"
    /\ \E r \in calculate_ceps_score(s_scores) :
          s_overall' = r[1] /\ s_grade' = r[2]
    /\ s_pc' = "done"
    /\ UNCHANGED s_scores
    /\ UNCHANGED <<parserVars, agentVars, runVars>>

(***************************************************************************)
(* app.py: main and _run_analysis, with the pool of two workers            *)
(***************************************************************************)
\* a variant of the pool with one worker per agent: max_workers=len(agent_map)
PoolPerAgent == Len(AgentKeys)

\* ThreadPoolExecutor(max_workers=2)
MaxWorkers == 2
Workers == 1..MaxWorkers

KeySet == {AgentKeys[i] : i \in 1..Len(AgentKeys)}
Labels == {"text-agent", "visual-agent-meta", "visual-agent-vision", "ux-agent",
           "trust-agent", "tech-agent"}
LabelOf(key) ==
    CASE key = "text" -> "text-agent" [] key = "visual" -> "visual-agent-meta"
      [] key = "ux" -> "ux-agent" [] key = "trust" -> "trust-agent"
      [] key = "tech" -> "tech-agent"

\* the pages of a run
RunSnapshots == {RichPage, PageData}

\* what a request of a run can do: raise, or return a response with its text
\* (or none) and the token counts of its usage_metadata
Response(text, prompt, completion) ==
    [raised |-> FALSE, blocked |-> FALSE, text |-> text, prompt |-> prompt,
     completion |-> completion]
\* a response without usable content: reading response.text raises
BlockedResponse(prompt, completion) ==
    [raised |-> FALSE, blocked |-> TRUE, text |-> <<>>, prompt |-> prompt,
     completion |-> completion]
RequestFails ==
    [raised |-> TRUE, blocked |-> FALSE, text |-> <<>>, prompt |-> 0, completion |-> 0]
GoodReply == Reply(<<"7", "2">>, <<"[", "\"x\"", "]">>, <<"\"y\"">>)
RunOutcomes(label) ==
    {RequestFails} \cup
    CASE label = "text-agent" ->
           {Response(GoodReply, 9, 4),
            Response(Reply(<<"1", "5", "0">>, <<>>, <<"\"rule-based\"">>), 9, 0),
            Response(Reply(<<"7", "2">>, <<>>, <<"7">>), 9, 4)}
      [] label = "visual-agent-meta" ->
           {Response(Reply(<<"8", "0">>, <<"[", "\"x\"", "]">>, <<>>), 5, 4),
            Response(Reply(<<"8", "0">>, <<"\"x\"">>, <<>>), 5, 4)}
      [] label = "visual-agent-vision" ->
           {Response(Reply(<<"6", "0">>, <<"[", "\"y\"", "]">>, <<>>), 7, 4)}
      [] label = "ux-agent" -> {Response(FencedJson(GoodReply), 6, 4), BlockedResponse(6, 0)}
      [] OTHER -> {Response(FencedJson(GoodReply), 6, 4)}

\* the outcome as the agent sees it
Seen(resp) == IF resp.raised \/ resp.blocked THEN Raised ELSE Returned(resp.text)

\* LLMRouter.__init__
NewRouter == [total_prompt_tokens |-> 0, total_completion_tokens |-> 0, total_calls |-> 0]

\* the body of the with block of _track_usage
TrackUsage(router, prompt_tokens, completion_tokens) ==
    [total_prompt_tokens |-> router.total_prompt_tokens + prompt_tokens,
     total_completion_tokens |-> router.total_completion_tokens + completion_tokens,
     total_calls |-> router.total_calls + 1]

\* the text analyze_image returns when the image could not be downloaded
NoImageText == <<"{", "\"error\"", ":", " ", "\"Could not download image\"", "}">>
\* LLMRouter.analyze_image as one call, which no agent and no step of the
\* pipeline makes: img tells whether _download_image returned the image; the result is what
\* the call hands back and the counters after it
analyze_image(router, img, resp) ==
    IF ~img
    THEN [ret |-> Returned(NoImageText), router |-> router]
    ELSE IF resp.raised THEN [ret |-> Raised, router |-> router]
    ELSE [ret |-> Seen(resp),
          router |-> TrackUsage(router, resp.prompt, resp.completion)]

\* get_usage_summary: the dict it returns
get_usage_summary(router) ==
    PyDict({<<"total_calls", PyInt(router.total_calls)>>,
            <<"total_prompt_tokens", PyInt(router.total_prompt_tokens)>>,
            <<"total_completion_tokens", PyInt(router.total_completion_tokens)>>,
            <<"total_tokens",
              PyInt(router.total_prompt_tokens + router.total_completion_tokens)>>})

\* the keys of usage the final summary of _run_analysis prints, in order
PrintedUsageKeys ==
    <<"total_calls", "total_retries", "total_prompt_tokens", "total_completion_tokens",
      "total_tokens">>

\* str.lower() of the chunks that have capitals, and "rule-based" in s.lower()
LowerChunk(c) ==
    CASE c = "Rule-based" -> "rule-based"
      [] c = "Visual score " -> "visual score "
      [] c = " analysis: SSL=" -> " analysis: ssl="
      [] c = "KB, " -> "kb, "
      [] OTHER -> c
PyLower(x) ==
    IF x.t = "str" THEN PyStr([i \in 1..Len(x.v) |-> LowerChunk(x.v[i])])
    ELSE PyExc("AttributeError")
IsFallbackSummary(summary) == PyIn("rule-based", PyLower(summary)).val

\* a variant of pct that spreads the completions over the whole bar
PctOfDone(count, total) == (count * 100) \div total

\* pct of the dispatch loop: 25 + int(done_count / len(futures) * 60)
Pct(count, total) == 25 + (count * 60) \div total

NoAnswers == [calls |-> 0, prompt |-> 0, completion |-> 0]
NoFutures == [k \in KeySet |-> Raise]
NoUsage == PyDict({})

\* the threads that call analyze_image
MaxCallers == 2
Callers == 1..MaxCallers
ImageOff ==
    /\ im_pc = [c \in Callers |-> "off"]
    /\ im_resp = [c \in Callers |-> RequestFails]
    /\ im_read = [c \in Callers |-> NewRouter]
    /\ im_ret = [c \in Callers |-> Raised]

PipelineOff ==
    /\ caller = "main" /\ key_set = FALSE /\ url_given = FALSE /\ pc = "off" /\ error = ""
    /\ page_data = PageData /\ queue = <<>>
    /\ fut_state = [k \in KeySet |-> "new"] /\ fut_ret = NoFutures
    /\ w_task = [w \in Workers |-> "idle"] /\ w_pc = [w \in Workers |-> "idle"]
    /\ w_resp = [w \in Workers |-> RequestFails]
    /\ w_read = [w \in Workers |-> NewRouter]
    /\ v_meta = NoReply /\ v_vision = NoReply /\ v_imgs = <<>>
    /\ lock = 0 /\ llm = NewRouter
    /\ sent = [l \in Labels |-> 0] /\ runs = [k \in KeySet |-> 0]
    /\ answered = NoAnswers /\ heard = [l \in Labels |-> <<>>]
    /\ yielded = {} /\ results = <<>> /\ done_count = 0 /\ progress = <<>>
    /\ fallback_agents = {} /\ overall = 0 /\ grade = "" /\ usage = NoUsage
    /\ session = "empty"
RunOff == PipelineOff /\ ImageOff

\* the Analyze button is pressed
RunStart ==
    /\ \/ caller = "main" /\ key_set \in BOOLEAN /\ url_given \in BOOLEAN /\ pc = "main"
       \/ caller = "direct" /\ key_set = FALSE /\ url_given = TRUE /\ pc = "run"
    /\ error = ""
    /\ page_data = PageData /\ queue = <<>>
    /\ fut_state = [k \in KeySet |-> "new"] /\ fut_ret = NoFutures
    /\ w_task = [w \in Workers |-> "idle"] /\ w_pc = [w \in Workers |-> "idle"]
    /\ w_resp = [w \in Workers |-> RequestFails]
    /\ w_read = [w \in Workers |-> NewRouter]
    /\ v_meta = NoReply /\ v_vision = NoReply /\ v_imgs = <<>>
    /\ lock = 0 /\ llm = NewRouter
    /\ sent = [l \in Labels |-> 0] /\ runs = [k \in KeySet |-> 0]
    /\ answered = NoAnswers /\ heard = [l \in Labels |-> <<>>]
    /\ yielded = {} /\ results = <<>> /\ done_count = 0 /\ progress = <<>>
    /\ fallback_agents = {} /\ overall = 0 /\ grade = "" /\ usage = NoUsage
    /\ session = "empty"
    /\ ImageOff

others == <<parserVars, agentVars, scoreVars, imageVars>>

\* main: the checks before _run_analysis is called
MainCheck ==
    /\ pc = "main"
    /\ pc' = IF key_set /\ url_given THEN "run" ELSE "error_shown"
    /\ UNCHANGED <<caller, key_set, url_given, error, page_data, yielded, results, done_count,
                   progress, fallback_agents, overall, grade, usage, session>>
    /\ UNCHANGED <<poolVars, others>>

\* a variant of _run_analysis without the credential check
CreateRouterUnchecked ==
    /\ pc = "run"
    /\ pc' = "scrape" /\ llm' = NewRouter /\ UNCHANGED error
    /\ UNCHANGED <<caller, key_set, url_given, page_data, yielded, results, done_count,
                   progress, fallback_agents, overall, grade, usage, session>>
    /\ UNCHANGED <<queue, fut_state, fut_ret, w_task, w_pc, w_resp, w_read, v_meta,
                   v_vision, v_imgs, lock, sent, answered, heard, runs, others>>

\* _run_analysis: the credential check and LLMRouter(GEMINI_API_KEY)
CreateRouter ==
    /\ pc = "run"
    /\ IF key_set
       THEN pc' = "scrape" /\ llm' = NewRouter /\ UNCHANGED error
       ELSE pc' = "failed" /\ error' = "ValueError" /\ UNCHANGED llm
    /\ UNCHANGED <<caller, key_set, url_given, page_data, yielded, results, done_count,
                   progress, fallback_agents, overall, grade, usage, session>>
    /\ UNCHANGED <<queue, fut_state, fut_ret, w_task, w_pc, w_resp, w_read, v_meta,
                   v_vision, v_imgs, lock, sent, answered, heard, runs, others>>

\* step 1: scrape_url returns the page, or raises: requests.get and
\* raise_for_status a RequestException, the size check a ValueError
Scrape ==
    /\ pc = "scrape"
    /\ \E outcome \in {"page", "RequestException", "ValueError"} :
          IF outcome = "page"
          THEN pc' = "parse" /\ progress' = progress \o <<0, 15>> /\ UNCHANGED error
          ELSE pc' = "failed" /\ error' = outcome
               /\ progress' = Append(progress, 0)
    /\ UNCHANGED <<caller, key_set, url_given, page_data, yielded, results, done_count,
                   fallback_agents, overall, grade, usage, session>>
    /\ UNCHANGED <<poolVars, others>>

\* step 2: parse_html builds the snapshot, or raises the ValueError of
\* urljoin / urlparse on a link or image URL they reject
ParseHtml ==
    /\ pc = "parse"
    /\ \/ /\ page_data' \in RunSnapshots
          /\ progress' = Append(progress, 25)
          /\ pc' = "submit"
          /\ UNCHANGED error
       \/ /\ pc' = "failed" /\ error' = "ValueError"
          /\ UNCHANGED <<page_data, progress>>
    /\ UNCHANGED <<caller, key_set, url_given, yielded, results, done_count,
                   fallback_agents, overall, grade, usage, session>>
    /\ UNCHANGED <<poolVars, others>>

\* step 3: one pool.submit of the dict comprehension, in the order of
\* agent_map; the workers run what is queued while the others are submitted
Submit ==
    /\ pc = "submit"
    /\ LET submitted == {k \in KeySet : fut_state[k] # "new"}
           key == AgentKeys[Cardinality(submitted) + 1]
       IN /\ queue' = Append(queue, key)
          /\ fut_state' = [fut_state EXCEPT ![key] = "pending"]
          /\ pc' = IF submitted \cup {key} = KeySet THEN "collect" ELSE "submit"
    /\ UNCHANGED <<caller, key_set, url_given, error, page_data, yielded, results, done_count,
                   progress, fallback_agents, overall, grade, usage, session>>
    /\ UNCHANGED <<fut_ret, w_task, w_pc, w_resp, w_read, v_meta, v_vision, v_imgs, lock, llm,
                   sent, answered, heard, runs, others>>

(***************************************************************************)
(* The pool workers: each runs one analyze call at a time                  *)
(***************************************************************************)
\* a worker takes the oldest queued task and starts its analyze
WorkerTake(w) ==
    /\ w_task[w] = "idle" /\ queue # <<>>
    /\ LET k == Head(queue)
       IN /\ w_task' = [w_task EXCEPT ![w] = k]
          /\ fut_state' = [fut_state EXCEPT ![k] = "running"]
          /\ runs' = [runs EXCEPT ![k] = @ + 1]
    /\ queue' = Tail(queue)
    /\ w_pc' = [w_pc EXCEPT ![w] = "request"]
    /\ UNCHANGED <<fut_ret, w_resp, w_read, v_meta, v_vision, v_imgs, lock, llm, sent,
                   answered, heard>>
    /\ UNCHANGED <<mainVars, others>>

\* analyze returns (or raises): the future is finished and the worker is free
Finish(w, ret) ==
    /\ fut_ret' = [fut_ret EXCEPT ![w_task[w]] = ret]
    /\ fut_state' = [fut_state EXCEPT ![w_task[w]] = "finished"]
    /\ w_task' = [w_task EXCEPT ![w] = "idle"]
    /\ w_pc' = [w_pc EXCEPT ![w] = "idle"]

\* analyze goes on to its next statement
Continue(w, next) ==
    /\ w_pc' = [w_pc EXCEPT ![w] = next]
    /\ UNCHANGED <<fut_ret, fut_state, w_task>>

\* the images _download_image returned
Downloaded == {i \in 1..Len(v_imgs) : v_imgs[i]}

\* the rest of the try block once the request is over (seen: what it did);
\* a vision request that was sent carried an image, so analyze_images_batch
\* hands its outcome to the agent
Process(w, seen) ==
    IF w_task[w] # "visual"
    THEN Finish(w, AgentAnalyze(w_task[w], page_data, seen))
         /\ UNCHANGED <<v_meta, v_vision, v_imgs>>
    ELSE IF w_pc[w] \in {"wait", "return"}
    THEN v_meta' = VisualMetaPhase(seen) /\ Continue(w, "vrequest")
         /\ UNCHANGED <<v_vision, v_imgs>>
    ELSE v_vision' = LLMReply(seen)
         /\ Continue(w, "blend") /\ UNCHANGED <<v_meta, v_imgs>>

\* generate_content: the request goes out and the thread waits for the answer
Send(w, label) ==
    /\ sent' = [sent EXCEPT ![label] = @ + 1]
    /\ Continue(w, IF w_pc[w] = "request" THEN "wait" ELSE "vwait")
    /\ UNCHANGED <<w_resp, v_meta, v_vision, answered, heard>>

\* llm.analyze_text: the request of a single-call agent, or the metadata
\* request of the visual agent
WorkerRequest(w) ==
    /\ w_pc[w] = "request"
    /\ Send(w, LabelOf(w_task[w]))
    /\ UNCHANGED <<queue, w_read, v_imgs, lock, llm, runs>>
    /\ UNCHANGED <<mainVars, others>>

\* generate_content returns a response or raises; an exception goes to the
\* except clause of the agent
WorkerReceive(w) ==
    /\ w_pc[w] \in {"wait", "vwait"}
    /\ LET label == IF w_pc[w] = "wait" THEN LabelOf(w_task[w]) ELSE "visual-agent-vision"
       IN \E resp \in RunOutcomes(label) :
             /\ answered' = IF resp.raised THEN answered
                            ELSE [calls |-> answered.calls + 1,
                                  prompt |-> answered.prompt + resp.prompt,
                                  completion |-> answered.completion + resp.completion]
             /\ heard' = [heard EXCEPT ![label] = Append(@, Seen(resp))]
             /\ IF resp.raised
                THEN Process(w, Raised) /\ UNCHANGED w_resp
                ELSE /\ w_resp' = [w_resp EXCEPT ![w] = resp]
                     /\ Continue(w, IF w_pc[w] = "wait" THEN "track" ELSE "vtrack")
                     /\ UNCHANGED <<v_meta, v_vision, v_imgs>>
    /\ UNCHANGED <<queue, w_read, lock, llm, sent, runs>>
    /\ UNCHANGED <<mainVars, others>>

\* analyze_images_batch: _download_image of the next URL returns the image
\* or None
WorkerDownload(w) ==
    /\ w_pc[w] = "vrequest"
    /\ Len(v_imgs) < Len(page_data.image_alts)
    /\ \E img \in BOOLEAN : v_imgs' = Append(v_imgs, img)
    /\ UNCHANGED <<queue, fut_state, fut_ret, w_task, w_pc, w_resp, w_read, v_meta, v_vision,
                   lock, llm, sent, answered, heard, runs>>
    /\ UNCHANGED <<mainVars, others>>

\* a variant of the vision part that sends the request whatever the page has
WorkerVisionAlways(w) ==
    /\ w_pc[w] = "vrequest"
    /\ Send(w, "visual-agent-vision")
    /\ v_imgs' = <<>>
    /\ UNCHANGED <<queue, w_read, lock, llm, runs>>
    /\ UNCHANGED <<mainVars, others>>

\* the vision part of the visual agent once the downloads are over: skipped
\* without images; analyze_images_batch sends the request unless no image
\* came; its list of parts is not used after either
WorkerVision(w) ==
    /\ w_pc[w] = "vrequest"
    /\ Len(v_imgs) = Len(page_data.image_alts)
    /\ v_imgs' = <<>>
    /\ IF Downloaded = {}
       THEN /\ v_vision' = VisualVisionPhase(page_data, {}, Raised)
            /\ Continue(w, "blend")
            /\ UNCHANGED <<v_meta, w_resp, sent, answered, heard>>
       ELSE Send(w, "visual-agent-vision")
    /\ UNCHANGED <<queue, w_read, lock, llm, runs>>
    /\ UNCHANGED <<mainVars, others>>

\* a variant of _track_usage without the lock
TrackNoLock(w) ==
    /\ w_pc[w] \in {"track", "vtrack"}
    /\ w_read' = [w_read EXCEPT ![w] = llm]
    /\ w_pc' = [w_pc EXCEPT ![w] = IF w_pc[w] = "track" THEN "tracking" ELSE "vtracking"]
    /\ UNCHANGED <<queue, fut_state, fut_ret, w_task, w_resp, v_meta, v_vision, v_imgs, llm,
                   lock, sent, answered, heard, runs>>
    /\ UNCHANGED <<mainVars, others>>

\* _track_usage: enter the with block and read the counters
TrackLock(w) ==
    /\ w_pc[w] \in {"track", "vtrack"}
    /\ lock = 0
    /\ lock' = w
    /\ w_read' = [w_read EXCEPT ![w] = llm]
    /\ w_pc' = [w_pc EXCEPT ![w] = IF w_pc[w] = "track" THEN "tracking" ELSE "vtracking"]
    /\ UNCHANGED <<queue, fut_state, fut_ret, w_task, w_resp, v_meta, v_vision, v_imgs, llm,
                   sent, answered, heard, runs>>
    /\ UNCHANGED <<mainVars, others>>

\* _track_usage: write the counters and leave the with block
TrackUpdate(w) ==
    /\ w_pc[w] \in {"tracking", "vtracking"}
    /\ llm' = TrackUsage(w_read[w], w_resp[w].prompt, w_resp[w].completion)
    /\ lock' = 0
    /\ w_pc' = [w_pc EXCEPT ![w] = IF w_pc[w] = "tracking" THEN "return" ELSE "vreturn"]
    /\ w_read' = [w_read EXCEPT ![w] = NewRouter]
    /\ UNCHANGED <<queue, fut_state, fut_ret, w_task, w_resp, v_meta, v_vision, v_imgs,
                   sent, answered, heard, runs>>
    /\ UNCHANGED <<mainVars, others>>

\* the request returns response.text (or raises on a blocked response) and
\* the agent goes on with the rest of its try block
WorkerReturn(w) ==
    /\ w_pc[w] \in {"return", "vreturn"}
    /\ Process(w, Seen(w_resp[w]))
    /\ w_resp' = [w_resp EXCEPT ![w] = RequestFails]
    /\ UNCHANGED <<queue, w_read, lock, llm, sent, answered, heard, runs>>
    /\ UNCHANGED <<mainVars, others>>

\* the end of visual_agent.analyze
WorkerBlend(w) ==
    /\ w_pc[w] = "blend"
    /\ Finish(w, VisualBlend(page_data, v_meta, v_vision))
    /\ UNCHANGED <<queue, w_resp, w_read, v_meta, v_vision, v_imgs, lock, llm, sent, answered,
                   heard, runs>>
    /\ UNCHANGED <<mainVars, others>>

(***************************************************************************)
(* The main thread: the dispatch loop and what follows it                  *)
(***************************************************************************)
\* a variant of the loop that stops at the first completed future
CollectFirst(k) ==
    /\ pc = "collect"
    /\ fut_state[k] = "finished" /\ k \notin yielded
    /\ yielded' = yielded \cup {k}
    /\ IF fut_ret[k].raised
       THEN /\ error' = "TypeError"
            /\ UNCHANGED <<results, done_count, progress>>
       ELSE /\ results' = (k :> fut_ret[k].result) @@ results
            /\ done_count' = done_count + 1
            /\ progress' = Append(progress, Pct(done_count + 1, Cardinality(KeySet)))
            /\ UNCHANGED error
    /\ pc' = "shutdown"
    /\ UNCHANGED <<caller, key_set, url_given, page_data, fallback_agents, overall, grade,
                   usage, session>>
    /\ UNCHANGED <<poolVars, others>>

\* a variant of the loop that catches the exception of a future and goes on
CollectSkipsRaised(k) ==
    /\ pc = "collect"
    /\ fut_state[k] = "finished" /\ k \notin yielded
    /\ yielded' = yielded \cup {k}
    /\ IF fut_ret[k].raised
       THEN UNCHANGED <<results, done_count, progress>>
       ELSE /\ results' = (k :> fut_ret[k].result) @@ results
            /\ done_count' = done_count + 1
            /\ progress' = Append(progress, Pct(done_count + 1, Cardinality(KeySet)))
    /\ pc' = IF yielded' = KeySet THEN "shutdown" ELSE "collect"
    /\ UNCHANGED <<caller, key_set, url_given, error, page_data, fallback_agents, overall,
                   grade, usage, session>>
    /\ UNCHANGED <<poolVars, others>>

\* one iteration of "for future in as_completed(futures)"
Collect(k) ==
    /\ pc = "collect"
    /\ fut_state[k] = "finished" /\ k \notin yielded
    /\ yielded' = yielded \cup {k}
    /\ IF fut_ret[k].raised
       THEN /\ error' = "TypeError"
            /\ pc' = "shutdown"
            /\ UNCHANGED <<results, done_count, progress>>
       ELSE /\ results' = (k :> fut_ret[k].result) @@ results
            /\ done_count' = done_count + 1
            /\ progress' = Append(progress, Pct(done_count + 1, Cardinality(KeySet)))
            /\ pc' = IF yielded' = KeySet THEN "shutdown" ELSE "collect"
            /\ UNCHANGED error
    /\ UNCHANGED <<caller, key_set, url_given, page_data, fallback_agents, overall, grade,
                   usage, session>>
    /\ UNCHANGED <<poolVars, others>>

\* a variant of the end of the with block that does not wait for the workers
ShutdownNoWait ==
    /\ pc = "shutdown"
    /\ pc' = IF error # "" THEN "failed" ELSE "fallbacks"
    /\ UNCHANGED <<caller, key_set, url_given, error, page_data, yielded, results, done_count,
                   progress, fallback_agents, overall, grade, usage, session>>
    /\ UNCHANGED <<poolVars, others>>

\* the end of the with block: shutdown(wait=True) returns when the queue is
\* empty and both workers are idle; a pending exception then leaves
\* _run_analysis
Shutdown ==
    /\ pc = "shutdown"
    /\ queue = <<>> /\ \A w \in Workers : w_task[w] = "idle"
    /\ pc' = IF error # "" THEN "failed" ELSE "fallbacks"
    /\ UNCHANGED <<caller, key_set, url_given, error, page_data, yielded, results, done_count,
                   progress, fallback_agents, overall, grade, usage, session>>
    /\ UNCHANGED <<poolVars, others>>

\* fallback_agents = [k for k, v in results.items() if "rule-based" in v.summary.lower()]
FallbackList ==
    /\ pc = "fallbacks"
    /\ IF \E k \in DOMAIN results : IsExc(PyLower(results[k].summary))
       THEN error' = "AttributeError" /\ pc' = "failed" /\ UNCHANGED fallback_agents
       ELSE /\ fallback_agents' = {k \in DOMAIN results : IsFallbackSummary(results[k].summary)}
            /\ pc' = "score"
            /\ UNCHANGED error
    /\ UNCHANGED <<caller, key_set, url_given, page_data, yielded, results, done_count,
                   progress, overall, grade, usage, session>>
    /\ UNCHANGED <<poolVars, others>>

\* step 4: calculate_ceps_score on the five results
Score ==
    /\ pc = "score"
    /\ \E r \in calculate_ceps_score([k \in KeySet |-> results[k].score]) :
          overall' = r[1] /\ grade' = r[2]
    /\ progress' = progress \o <<90, 100>>
    /\ pc' = "usage"
    /\ UNCHANGED <<caller, key_set, url_given, error, page_data, yielded, results, done_count,
                   fallback_agents, usage, session>>
    /\ UNCHANGED <<poolVars, others>>

\* usage = llm.get_usage_summary()
ReadUsage ==
    /\ pc = "usage"
    /\ lock = 0
    /\ usage' = get_usage_summary(llm)
    /\ pc' = "print"
    /\ UNCHANGED <<caller, key_set, url_given, error, page_data, yielded, results, done_count,
                   progress, fallback_agents, overall, grade, session>>
    /\ UNCHANGED <<poolVars, others>>

\* the final summary: each usage[key] it prints raises KeyError when the key
\* is missing; otherwise _run_analysis returns
PrintSummary ==
    /\ pc = "print"
    /\ IF \E i \in 1..Len(PrintedUsageKeys) : ~DictHas(usage, PrintedUsageKeys[i])
       THEN error' = "KeyError" /\ pc' = "failed"
       ELSE pc' = "returned" /\ UNCHANGED error
    /\ UNCHANGED <<caller, key_set, url_given, page_data, yielded, results, done_count,
                   progress, fallback_agents, overall, grade, usage, session>>
    /\ UNCHANGED <<poolVars, others>>

\* main: store the composite result in the session, or report the failure
MainEnd ==
    /\ caller = "main"
    /\ pc \in {"returned", "failed"}
    /\ IF pc = "returned"
       THEN /\ session' = [overall |-> overall, grade |-> grade, results |-> results,
                           page_data |-> page_data, usage |-> usage]
            /\ pc' = "shown"
       ELSE pc' = "error_shown" /\ UNCHANGED session
    /\ UNCHANGED <<caller, key_set, url_given, error, page_data, yielded, results, done_count,
                   progress, fallback_agents, overall, grade, usage>>
    /\ UNCHANGED <<poolVars, others>>

(***************************************************************************)
(* Specifications                                                          *)
(***************************************************************************)
(***************************************************************************)
(* LLMRouter.analyze_image, called on one router by threads of their own   *)
(***************************************************************************)
\* what the request of analyze_image can do
ImageOutcomes ==
    {RequestFails, Response(<<"{", "\"score\"", ":", " ", "7", "}">>, 7, 4),
     BlockedResponse(7, 0)}

ImageStart ==
    /\ im_pc = [c \in Callers |-> "call"]
    /\ im_resp = [c \in Callers |-> RequestFails]
    /\ im_read = [c \in Callers |-> NewRouter]
    /\ im_ret = [c \in Callers |-> Raised]

\* what a step of analyze_image leaves alone
ImageFrame ==
    UNCHANGED <<parserVars, agentVars, scoreVars, mainVars, queue, fut_state, fut_ret,
                w_task, w_pc, w_resp, w_read, v_meta, v_vision, v_imgs, sent, answered,
                heard, runs>>

\* _download_image returns the image or None; without it the error text is
\* returned and no request is sent
ImageDownload(c) ==
    /\ im_pc[c] = "call"
    /\ \E img \in BOOLEAN :
          IF img
          THEN im_pc' = [im_pc EXCEPT ![c] = "send"] /\ UNCHANGED im_ret
          ELSE /\ im_pc' = [im_pc EXCEPT ![c] = "done"]
               /\ im_ret' = [im_ret EXCEPT ![c] = Returned(NoImageText)]
    /\ UNCHANGED <<im_resp, im_read, lock, llm>>
    /\ ImageFrame

\* generate_content([prompt, img]): the request goes out
ImageSend(c) ==
    /\ im_pc[c] = "send"
    /\ im_pc' = [im_pc EXCEPT ![c] = "wait"]
    /\ UNCHANGED <<im_resp, im_read, im_ret, lock, llm>>
    /\ ImageFrame

\* generate_content returns a response or raises; the exception leaves
\* analyze_image
ImageReceive(c) ==
    /\ im_pc[c] = "wait"
    /\ \E resp \in ImageOutcomes :
          IF resp.raised
          THEN /\ im_pc' = [im_pc EXCEPT ![c] = "done"]
               /\ im_ret' = [im_ret EXCEPT ![c] = Raised]
               /\ UNCHANGED im_resp
          ELSE /\ im_pc' = [im_pc EXCEPT ![c] = "track"]
               /\ im_resp' = [im_resp EXCEPT ![c] = resp]
               /\ UNCHANGED im_ret
    /\ UNCHANGED <<im_read, lock, llm>>
    /\ ImageFrame

\* _track_usage: enter the with block and read the counters
ImageTrackLock(c) ==
    /\ im_pc[c] = "track"
    /\ lock = 0
    /\ lock' = c
    /\ im_read' = [im_read EXCEPT ![c] = llm]
    /\ im_pc' = [im_pc EXCEPT ![c] = "tracking"]
    /\ UNCHANGED <<im_resp, im_ret, llm>>
    /\ ImageFrame

\* _track_usage: write the counters and leave the with block
ImageTrackUpdate(c) ==
    /\ im_pc[c] = "tracking"
    /\ llm' = TrackUsage(im_read[c], im_resp[c].prompt, im_resp[c].completion)
    /\ lock' = 0
    /\ im_read' = [im_read EXCEPT ![c] = NewRouter]
    /\ im_pc' = [im_pc EXCEPT ![c] = "return"]
    /\ UNCHANGED <<im_resp, im_ret>>
    /\ ImageFrame

\* return response.text, which raises on a response without content
ImageReturn(c) ==
    /\ im_pc[c] = "return"
    /\ im_ret' = [im_ret EXCEPT ![c] = Seen(im_resp[c])]
    /\ im_resp' = [im_resp EXCEPT ![c] = RequestFails]
    /\ im_pc' = [im_pc EXCEPT ![c] = "done"]
    /\ UNCHANGED <<im_read, lock, llm>>
    /\ ImageFrame

vars == <<parserVars, agentVars, scoreVars, runVars>>

\* one run of the pipeline
Init == RunStart /\ ParserOff /\ AgentOff /\ ScoreOff
Next ==
    \/ MainCheck \/ CreateRouter \/ Scrape \/ ParseHtml \/ Submit
    \/ \E w \in Workers :
          \/ WorkerTake(w) \/ WorkerRequest(w) \/ WorkerReceive(w)
          \/ WorkerDownload(w) \/ WorkerVision(w)
          \/ TrackLock(w) \/ TrackUpdate(w) \/ WorkerReturn(w) \/ WorkerBlend(w)
    \/ \E k \in KeySet : Collect(k)
    \/ Shutdown \/ FallbackList \/ Score \/ ReadUsage \/ PrintSummary \/ MainEnd
Spec == Init /\ [][Next]_vars

\* one call of parse_json
ParserInit == ParserStart /\ AgentOff /\ ScoreOff /\ RunOff
ParserNext == TryDirect \/ TryFence \/ TryBrace
SpecParser == ParserInit /\ [][ParserNext]_vars

\* one call of an agent's analyze
AgentInit == AgentStart /\ ParserOff /\ ScoreOff /\ RunOff
AgentNext == SingleCall \/ VisualMeta \/ VisualVision \/ VisualFinal
SpecAgent == AgentInit /\ [][AgentNext]_vars

\* one call of a rule-based scorer
ScorerInit == ScorerStart /\ ParserOff /\ ScoreOff /\ RunOff
ScorerNext == RunFallback
SpecScorer == ScorerInit /\ [][ScorerNext]_vars

\* calls of analyze_image on a new router
ImageInit == ImageStart /\ PipelineOff /\ ParserOff /\ AgentOff /\ ScoreOff
ImageNext ==
    \E c \in Callers :
       \/ ImageDownload(c) \/ ImageSend(c) \/ ImageReceive(c)
       \/ ImageTrackLock(c) \/ ImageTrackUpdate(c) \/ ImageReturn(c)
SpecImage == ImageInit /\ [][ImageNext]_vars

\* one call of calculate_ceps_score
ScoreInit == ScoreStart /\ ParserOff /\ AgentOff /\ RunOff
ScoreNext == Aggregate
SpecScore == ScoreInit /\ [][ScoreNext]_vars

(***************************************************************************)
(* Properties                                                              *)
(***************************************************************************)
\* C1: every agent's analyze returns an AgentResult and never raises,
\* whatever the request does and whatever the response parses to.
C1_AnalyzeNeverRaises == a_pc = "done" => ~a_ret.raised

\* C2: every AgentResult an agent returns, on any path, has a score in
\* [0, 100] (0..1000 tenths), whatever score the response contains.
C2_ScoreInRange ==
    (a_pc = "done" /\ ~a_ret.raised) => a_ret.result.score \in 0..1000

\* the parsed value is an object whose score member is a JSON number
C3_NumberScore(data) ==
    /\ data.t = "dict" /\ DictHas(data, "score")
    /\ DictItem(data, "score").t \in {"int", "float", "bigint"}

\* the parsed value is an object whose score member float() converts: a
\* number within the range of a float, a boolean, or a string that holds a number
C3_UsableScore(data) ==
    /\ data.t = "dict" /\ DictHas(data, "score")
    /\ LET sc == DictItem(data, "score")
       IN \/ sc.t \in {"int", "float", "bool"}
          \/ sc.t = "str" /\ Len(sc.v) = 1 /\ sc.v[1] \in DOMAIN NumericStrings

\* C3 as stated: a single-call agent returns its rule-based result if and only
\* if the request raised, the parser returned no result, or the parsed value
\* is not an object with a numeric score member.
C3_FallbackIffNotNumber ==
    (a_pc = "done" /\ a_agent \in SingleKeys) =>
        /\ ~a_ret.raised
        /\ (a_ret.result = AgentFallback(a_agent, a_pd))
           <=> (a_outcome.raised \/ ~C3_NumberScore(parse_json(a_outcome.text)))

\* C3, amended: a single-call agent returns its rule-based result if and only
\* if the request raised, the parser raised or returned no result, or the
\* parsed value is not an object whose score member float() converts (a
\* number, a boolean, or a string holding a number); otherwise the score is
\* float() of that member, and a missing score is never replaced by a default.
C3_FallbackIffUnusable ==
    (a_pc = "done" /\ a_agent \in SingleKeys) =>
        LET data == parse_json(a_outcome.text)
            usable == ~a_outcome.raised /\ C3_UsableScore(data)
        IN /\ ~a_ret.raised
           /\ (a_ret.result = AgentFallback(a_agent, a_pd)) <=> ~usable
           /\ usable => a_ret.result.score = PyFloatOf(DictItem(data, "score")).v
           /\ (~a_outcome.raised /\ data.t = "dict" /\ ~DictHas(data, "score"))
              => a_ret.result = AgentFallback(a_agent, a_pd)

\* C3, the case: a response whose score is the string "85" was used as 85.0,
\* and one without a score member gave the rule-based result
C3_StringScoreUsed ==
    /\ a_pc = "done" /\ a_agent \in SingleKeys /\ ~a_outcome.raised
    /\ LET data == parse_json(a_outcome.text)
       IN /\ data.t = "dict" /\ DictHas(data, "score")
          /\ DictItem(data, "score") = PyStr(<<"85">>)
    /\ ~a_ret.raised /\ a_ret.path = "llm" /\ a_ret.result.score = 850

\* C4: when the dispatch loop and the pool are over, each analyze has run
\* exactly once and results has exactly the five keys, each bound to the
\* result of its own agent.
C4_FiveResults ==
    (pc = "fallbacks" \/ (pc = "failed" /\ error = "TypeError")) =>
        /\ \A k \in KeySet : runs[k] = 1
        /\ DOMAIN results = KeySet
        /\ \A k \in KeySet : ~fut_ret[k].raised /\ results[k] = fut_ret[k].result

\* the analyze calls that are executing
C5_Executing == {k \in KeySet : fut_state[k] = "running"}

C5_TwoAtMost ==
    /\ Cardinality(C5_Executing) <= 2
    /\ \A k \in KeySet :
          /\ fut_state[k] = "running" <=> \E w \in Workers : w_task[w] = k
          /\ fut_state[k] = "pending" <=> \E i \in 1..Len(queue) : queue[i] = k
    /\ \A w1, w2 \in Workers :
          (w1 # w2 /\ w_task[w1] # "idle") => w_task[w1] # w_task[w2]

C5_ToCompletion ==
    \A w \in Workers :
       w_task[w] # "idle" =>
          \/ w_task'[w] = w_task[w]
          \/ w_task'[w] = "idle" /\ fut_state'[w_task[w]] = "finished"

\* C5: at most 2 analyze calls execute at the same time, the other submitted
\* agents wait in the queue, and a worker keeps its analyze call until that
\* call is finished.
C5_BoundedPool == []C5_TwoAtMost /\ [][C5_ToCompletion]_vars

\* C5, the case: two calls execute while others wait and one has finished
C5_TwoRunningOthersWait ==
    /\ Cardinality(C5_Executing) = 2
    /\ queue # <<>>
    /\ \E k \in KeySet : fut_state[k] = "finished"

\* C6: the aggregator runs only when all five results are in results; no
\* overall score or grade is computed from fewer.
C6_FullBarrier ==
    (pc = "score" \/ grade # "") =>
        /\ DOMAIN results = KeySet
        /\ \A k \in KeySet : fut_state[k] = "finished"

\* C6, the case: the aggregator has run on five results, one of them rule-based
C6_Aggregated ==
    /\ pc = "usage" /\ grade # ""
    /\ DOMAIN results = KeySet
    /\ fallback_agents # {} /\ fallback_agents # KeySet

\* C7: once the credential is set, the page is fetched and parsed and all five
\* agents have returned a result, no later step of _run_analysis raises: the
\* run does not end in a failure.
C7_NoFailureAfterAgents == ~(pc = "failed" /\ DOMAIN results = KeySet)

\* C8: the visual agent's final score is round(vision*0.6 + metadata*0.4, 1)
\* when both phases gave a score (metadata 80 and vision 60 give 68.0), the
\* one score unchanged when exactly one phase gave one, and otherwise the
\* result is the rule-based visual scorer's result.
C8_BlendPolicy ==
    (a_pc = "done" /\ a_agent = "visual") =>
        /\ (a_meta.ok /\ a_vision.ok) =>
              /\ a_final.t = "float"
              /\ Abs(10 * a_final.v - (6 * a_vision.score + 4 * a_meta.score)) <= 5
              /\ (a_meta.score = 800 /\ a_vision.score = 600) => a_final.v = 680
              /\ ~a_ret.raised => a_ret.result.score = a_final.v
        /\ (a_meta.ok /\ ~a_vision.ok) =>
              /\ a_final = PyFloat(a_meta.score)
              /\ ~a_ret.raised /\ a_ret.result.score = a_meta.score
        /\ (~a_meta.ok /\ a_vision.ok) =>
              /\ a_final = PyFloat(a_vision.score)
              /\ ~a_ret.raised /\ a_ret.result.score = a_vision.score
        /\ (~a_meta.ok /\ ~a_vision.ok) =>
              /\ a_final = PyNone
              /\ ~a_ret.raised /\ a_ret.result = visual_agent_fallback(a_pd)

\* C8, the case: metadata 80 and vision 60 were blended to 68.0
C8_Blended ==
    /\ a_pc = "done" /\ a_agent = "visual"
    /\ a_meta.ok /\ a_meta.score = 800 /\ a_vision.ok /\ a_vision.score = 600
    /\ ~a_ret.raised /\ a_ret.result.score = 680

\* C9: parse_json tries the whole text, the first fenced block and the span
\* from the first to the last brace in that order, returns the first value
\* that parses, None when none does, and never raises.
C9_ParserNeverRaises == p_pc # "raised"

\* C10: calculate_ceps_score returns 0.25*text + 0.15*visual + 0.25*ux +
\* 0.20*trust + 0.15*tech rounded to one decimal, the weights sum to 1.0, and
\* five scores in [0, 100] give an overall in [0, 100].
C10_WeightedOverall ==
    s_pc = "done" =>
        /\ Abs(100 * s_overall
               - (25 * s_scores.text + 15 * s_scores.visual + 25 * s_scores.ux
                  + 20 * s_scores.trust + 15 * s_scores.tech)) <= 50
        /\ WEIGHTS.text + WEIGHTS.visual + WEIGHTS.ux + WEIGHTS.trust + WEIGHTS.tech = 100
        /\ (\A k \in DOMAIN s_scores : s_scores[k] \in 0..1000) => s_overall \in 0..1000

\* C10, the case: five different scores in range were aggregated
C10_Aggregated ==
    /\ s_pc = "done"
    /\ \A k \in DOMAIN s_scores : s_scores[k] \in 0..1000
    /\ s_scores.text = 1000 /\ s_scores.visual = 0 /\ s_scores.ux = 684
    /\ s_overall \in 1..999

\* the grades whose band (inclusive lower bound, next band's bound excluded)
\* holds the score x, in tenths
C11_Bands(x) ==
    {g \in {"A+", "A", "B", "C", "D", "F"} :
        \/ g = "A+" /\ x >= 900
        \/ g = "A" /\ x >= 800 /\ x < 900
        \/ g = "B" /\ x >= 700 /\ x < 800
        \/ g = "C" /\ x >= 600 /\ x < 700
        \/ g = "D" /\ x >= 500 /\ x < 600
        \/ g = "F" /\ x < 500}

\* every score of [0, 100], in tenths, lies in the band of its grade alone
C11_EveryScore == \A x \in 0..1000 : C11_Bands(x) = {get_grade(x)}

\* C11: the grade mapping gives every overall score in [0, 100] exactly one
\* grade, with inclusive lower bounds 90 A+, 80 A, 70 B, 60 C, 50 D and F
\* below 50: 90.0 gives A+, 89.9 A, 50.0 D and 49.9 F.
C11_GradeBands ==
    /\ C11_EveryScore
    /\ get_grade(900) = "A+" /\ get_grade(899) = "A"
    /\ get_grade(500) = "D" /\ get_grade(499) = "F"
    /\ s_pc = "done" => C11_Bands(s_overall) = {s_grade}

\* C11, the case: an overall of 89.9 was graded A and one of 90.0 would be A+
C11_JustBelowAPlus ==
    s_pc = "done" /\ s_overall = 899 /\ s_grade = "A"

\* C12: for every snapshot, each of the five rule-based scorers returns,
\* without raising, an AgentResult whose score is in [0, 100] and whose
\* findings list is not empty.
C12_ScorerTotal ==
    a_pc = "scored" =>
        /\ ~a_ret.raised
        /\ a_ret.result.score \in 0..1000
        /\ a_ret.result.findings.t = "list"
        /\ Len(a_ret.result.findings.v) >= 1
        /\ \A i \in 1..Len(a_ret.result.findings.v) : a_ret.result.findings.v[i].t = "str"

\* C12, the case: the text scorer ran on a page without text, title,
\* description or headings and still returned findings
C12_EmptyPageScored ==
    /\ a_pc = "scored" /\ a_agent = "text" /\ a_pd = PageData
    /\ a_ret.result.score = 200 /\ Len(a_ret.result.findings.v) = 4

\* the workers whose response has come back and is not yet in the counters
C13_Pending == {w \in Workers : w_pc[w] \in {"track", "tracking", "vtrack", "vtracking"}}

RECURSIVE C13_PendingSum(_, _)
C13_PendingSum(field, ws) ==
    IF ws = {} THEN 0
    ELSE LET w == CHOOSE x \in ws : TRUE
         IN w_resp[w][field] + C13_PendingSum(field, ws \ {w})

\* the counters and the responses under way add up to the responses returned
C13_NothingLost ==
    /\ llm.total_calls + Cardinality(C13_Pending) = answered.calls
    /\ llm.total_prompt_tokens + C13_PendingSum("prompt", C13_Pending) = answered.prompt
    /\ llm.total_completion_tokens + C13_PendingSum("completion", C13_Pending)
           = answered.completion

\* after the pool is shut down the counters, and the summary read from them,
\* are the totals of the responses returned
C13_FinalTotals ==
    /\ pc \in {"fallbacks", "score", "usage", "print", "returned", "shown"} =>
           /\ llm.total_calls = answered.calls
           /\ llm.total_prompt_tokens = answered.prompt
           /\ llm.total_completion_tokens = answered.completion
    /\ usage # NoUsage =>
           usage = get_usage_summary([total_calls |-> answered.calls,
                                      total_prompt_tokens |-> answered.prompt,
                                      total_completion_tokens |-> answered.completion])

\* no step lowers a counter
C13_NeverDecreases ==
    /\ llm'.total_calls >= llm.total_calls
    /\ llm'.total_prompt_tokens >= llm.total_prompt_tokens
    /\ llm'.total_completion_tokens >= llm.total_completion_tokens

\* C13: the usage counters are updated atomically: under every interleaving
\* of the two workers no update is lost, the values get_usage_summary reads
\* never decrease during a run, and once all agents are done total_calls is
\* the number of external calls that returned a response and the token totals
\* are the sums those calls reported.
C13_AtomicUsage ==
    /\ [](C13_NothingLost /\ C13_FinalTotals)
    /\ [][C13_NeverDecreases]_vars

\* C13, the case: one worker is inside the locked block while the other
\* waits for the lock with its own response, and a call was counted before
C13_Contended ==
    /\ lock # 0
    /\ \E w \in Workers : w # lock /\ w_pc[w] \in {"track", "vtrack"}
    /\ llm.total_calls >= 1

\* what the analyze registered under key returns for the snapshot of the run
\* and the outcomes of its own requests
C14_VisionOf(pd, outcomes) ==
    IF outcomes = <<>> THEN VisualVisionPhase(pd, {}, Raised)
    ELSE VisualVisionPhase(pd, 1..Len(pd.image_alts), outcomes[1])
C14_SingleResults ==
    [key \in SingleKeys |->
        [pd \in RunSnapshots |->
            [o \in {Seen(r) : r \in RunOutcomes(LabelOf(key))} |-> AgentAnalyze(key, pd, o)]]]
C14_VisualResults ==
    [pd \in RunSnapshots |->
        [m \in {Seen(r) : r \in RunOutcomes("visual-agent-meta")} |->
            [v \in {<<>>} \cup {<<Seen(r)>> : r \in RunOutcomes("visual-agent-vision")} |->
                VisualBlend(pd, VisualMetaPhase(m), C14_VisionOf(pd, v))]]]
C14_Own(key) ==
    IF key = "visual"
    THEN C14_VisualResults[page_data][heard["visual-agent-meta"][1]]
                          [heard["visual-agent-vision"]]
    ELSE C14_SingleResults[key][page_data][heard[LabelOf(key)][1]]

\* the pool was entered and left
C14_PoolLeft ==
    \/ pc \in {"fallbacks", "score", "usage", "print", "returned", "shown"}
    \/ pc \in {"failed", "error_shown"} /\ yielded # {}

\* C14: an external-call failure in one agent neither cancels nor changes
\* another agent's analysis: all agents run to completion, and each agent's
\* result depends only on the page snapshot and that agent's own responses.
C14_Isolation ==
    /\ \A k \in KeySet :
          fut_state[k] = "finished" => runs[k] = 1 /\ fut_ret[k] = C14_Own(k)
    /\ C14_PoolLeft => \A k \in KeySet : fut_state[k] = "finished"

\* C14, the case: the request of the text agent failed, and the other four
\* agents finished with results made from their own responses
C14_OneFailedFourAnswered ==
    /\ heard["text-agent"] = <<Raised>>
    /\ \A k \in KeySet : fut_state[k] = "finished" /\ ~fut_ret[k].raised
    /\ fut_ret["text"].path = "fallback"
    /\ \A k \in KeySet \ {"text"} : fut_ret[k].path # "fallback"

\* C15: when no credential is configured, the pipeline fails with an error
\* before the page is fetched, before the client is created and before any
\* agent is submitted: no agent runs, no external call is made, and no result
\* is stored or displayed for that run.
C15_NoCredentialNoRun ==
    ~key_set =>
        /\ pc \in {"main", "run", "failed", "error_shown"}
        /\ pc = "failed" => error = "ValueError"
        /\ progress = <<>> /\ page_data = PageData
        /\ queue = <<>> /\ \A k \in KeySet : fut_state[k] = "new" /\ runs[k] = 0
        /\ \A l \in Labels : sent[l] = 0
        /\ llm = NewRouter /\ answered = NoAnswers
        /\ results = <<>> /\ session = "empty"

\* C15, the case: _run_analysis itself was entered without a credential and
\* raised ValueError
C15_PipelineRefused ==
    ~key_set /\ caller = "direct" /\ pc = "failed" /\ error = "ValueError"

\* C16: an agent's key is in the dispatcher's fallback list (its summary
\* contains "rule-based", case-insensitively) if and only if that agent's
\* result was produced by its rule-based scorer, for any response text.
C16_FallbackListExact ==
    pc \in {"score", "usage", "print", "returned", "shown"} =>
        \A k \in KeySet : k \in fallback_agents <=> fut_ret[k].path = "fallback"

\* the requests sent so far in the run
C17_TotalSent ==
    sent["text-agent"] + sent["visual-agent-meta"] + sent["visual-agent-vision"]
        + sent["ux-agent"] + sent["trust-agent"] + sent["tech-agent"]

\* C17: per analyze call each single-call agent invokes the generative
\* capability exactly once, with no retry; the Visual agent makes the
\* metadata call exactly once on every call (also without images) and the
\* vision request at most once, only when the snapshot has an image; a whole
\* run makes at most 6 external calls.
C17_CallCounts ==
    /\ \A l \in Labels : sent[l] <= 1 /\ Len(heard[l]) <= sent[l]
    /\ \A k \in KeySet :
          /\ fut_state[k] \in {"new", "pending"} => sent[LabelOf(k)] = 0
          /\ fut_state[k] = "finished" =>
                sent[LabelOf(k)] = 1 /\ Len(heard[LabelOf(k)]) = 1
    /\ fut_state["visual"] = "finished" =>
          Len(heard["visual-agent-vision"]) = sent["visual-agent-vision"]
    /\ sent["visual-agent-vision"] = 1 =>
          /\ page_data.image_alts # <<>>
          /\ sent["visual-agent-meta"] = 1
          /\ fut_state["visual"] \in {"running", "finished"}
    /\ C17_TotalSent <= 6

\* C17, the case: the metadata request failed, the vision request was still
\* sent, and the run made its six calls
C17_VisionAfterMetaFailed ==
    /\ heard["visual-agent-meta"] = <<Raised>>
    /\ sent["visual-agent-vision"] = 1
    /\ \A k \in KeySet : fut_state[k] = "finished"
    /\ C17_TotalSent = 6

\* C18: when every image of the batch fails to download or decode, the vision
\* phase fails without being fatal: no vision request is sent, the usage
\* counters are not incremented for it, the vision score stays absent, and
\* the Visual agent returns the metadata score alone if the metadata phase
\* succeeded and the rule-based result otherwise; when only some images fail,
\* the request is sent with the remaining images.
C18_BatchDownloads ==
    (a_agent = "visual" /\ a_pd.image_alts # <<>> /\ a_pc \in {"blend", "done"}) =>
        IF a_downloaded = {}
        THEN /\ a_parts = <<>> /\ a_tracked.vision = 0
             /\ ~a_vision.ok
             /\ a_pc = "done" =>
                   a_ret = IF a_meta.ok
                           THEN Return("meta",
                                       AgentResult(VISUAL_AGENT_NAME, a_meta.score,
                                                   a_meta.findings,
                                                   VisualSummary(a_pd, a_meta.score)))
                           ELSE Return("fallback", visual_agent_fallback(a_pd))
        ELSE a_parts = <<a_downloaded>>

\* C18, the case: no image of a page with three could be downloaded, and the
\* result carries the metadata score
C18_NoneDownloadedMetaAlone ==
    /\ a_agent = "visual" /\ a_pc = "done" /\ Len(a_pd.image_alts) = 3
    /\ a_downloaded = {} /\ a_meta.ok /\ a_tracked.text = 1
    /\ ~a_ret.raised /\ a_ret.result.score = a_meta.score

\* the result a single-call agent builds from a parsed object
C19_FromObject(ret, data) ==
    /\ ~ret.raised /\ ret.path = "llm"
    /\ ret.result.score = PyFloatOf(DictItem(data, "score")).v
    /\ ret.result.findings = DictGet(data, "findings", PyList(<<>>))
    /\ ret.result.summary = DictGet(data, "summary", PyStr(<<>>))

\* C19: for each single-call agent, when the parsed object has a numeric
\* score field the returned AgentResult carries that score, the object's
\* findings and the object's summary, findings defaulting to the empty list
\* and summary to the empty string; the rule-based scorer is not used.
C19_NumericScoreUsed ==
    (/\ a_pc = "done" /\ a_agent \in SingleKeys /\ ~a_outcome.raised
     /\ C3_NumberScore(parse_json(a_outcome.text)))
        => C19_FromObject(a_ret, parse_json(a_outcome.text))

\* the findings of a phase, one after the other
C20_Items(findings) == IF findings.t = "list" THEN findings.v ELSE <<findings>>

\* C20: in the Visual agent's result, when both phases succeeded the findings
\* are the metadata findings followed by the vision findings; when only one
\* phase succeeded they are that phase's findings only, and no finding of a
\* failed phase appears.
C20_FindingsInOrder ==
    (a_pc = "done" /\ a_agent = "visual" /\ (a_meta.ok \/ a_vision.ok)) =>
        /\ ~a_ret.raised
        /\ IF a_meta.ok /\ a_vision.ok
           THEN /\ a_ret.result.findings.t = "list"
                /\ a_ret.result.findings.v
                       = C20_Items(a_meta.findings) \o C20_Items(a_vision.findings)
           ELSE IF a_meta.ok THEN a_ret.result.findings = a_meta.findings
           ELSE a_ret.result.findings = a_vision.findings

\* the bodies that are the text of a JSON object
C21_Objects == {b \in Replies \cup OtherBodies : parse_json(b).t = "dict"}

\* the fenced forms of a body: without and with the json tag, and inside prose
C21_FencedForms(b) == {Fenced(b), FencedJson(b), ProseFenced(b)}

\* what the parser returns for the bare text of each object, listed under the
\* bare text and under each of its fenced forms
C21_Bare == [b \in C21_Objects |-> parse_json(b)]
C21_Wrapped ==
    [w \in UNION {C21_FencedForms(b) : b \in C21_Objects} |->
        parse_json(CHOOSE b \in C21_Objects : w \in C21_FencedForms(b))]

\* C21: fence stripping is transparent: for a JSON object the parser returns
\* the same object for the bare text and for that text wrapped in a fenced
\* code block, with or without the json tag and with surrounding prose; the
\* wrapped text is parsed from the interior of the block.
C21_FenceTransparent ==
    /\ (p_text \in DOMAIN C21_Bare /\ p_pc # "run") =>
           p_pc = "returned" /\ p_result = C21_Bare[p_text]
    /\ (p_text \in DOMAIN C21_Wrapped /\ p_pc # "run") =>
           /\ p_pc = "returned" /\ p_result = C21_Wrapped[p_text]
           /\ p_tried = <<[tier |-> "direct", ok |-> FALSE],
                          [tier |-> "fence", ok |-> TRUE]>>

\* C21, the case: the object {"score": 72, "findings": ["x"], "summary": "y"}
\* inside a json-tagged block with prose around it came back as the object
C21_ProseFencedParsed ==
    /\ p_text = ProseFenced(GoodReply) /\ p_pc = "returned"
    /\ p_result = PyDict({<<"score", PyInt(72)>>,
                          <<"findings", PyList(<<PyStr(<<"x">>)>>)>>,
                          <<"summary", PyStr(<<"y">>)>>})

\* C22: for every input text that contains neither an opening nor a closing
\* brace, the response parser returns "no result" (None).
C22_NoBracesNoResult ==
    (/\ p_pc # "run"
     /\ \A i \in 1..Len(p_text) : p_text[i] \notin {"{", "}"})
        => p_pc = "returned" /\ p_result = PyNone

\* the values the dispatch loop has given to the progress bar so far: those
\* after the three of the fetch and parse steps
C23_LoopValues ==
    IF pc \in {"collect", "shutdown", "fallbacks"} THEN SubSeq(progress, 4, Len(progress))
    ELSE <<>>

\* the completions retrieved without an error
C23_Retrieved == {k \in yielded : ~fut_ret[k].raised}

\* C23 as stated: the dispatcher emits exactly one progress notification after
\* each agent completion (five per run), each value a fraction in [0, 1], and
\* the values never decrease from one completion to the next.
C23_FractionPerCompletion ==
    pc \in {"collect", "shutdown", "fallbacks"} =>
        /\ Len(C23_LoopValues) = Cardinality(yielded)
        /\ pc = "fallbacks" => Len(C23_LoopValues) = 5
        /\ \A i \in 1..Len(C23_LoopValues) :
              /\ C23_LoopValues[i] >= 0 /\ C23_LoopValues[i] <= 1
              /\ i > 1 => C23_LoopValues[i] >= C23_LoopValues[i - 1]

\* C23, amended: the dispatcher emits one progress notification after each
\* completion it retrieves, five when the loop ends normally; the values are
\* integer percentages of the bar, 37, 49, 61, 73 and 85 in that order
\* (25 + 60 * n / 5 rounded down), so they lie in [0, 100] and increase.
C23_PercentPerCompletion ==
    pc \in {"collect", "shutdown", "fallbacks"} =>
        /\ Len(C23_LoopValues) = Cardinality(C23_Retrieved)
        /\ Len(C23_LoopValues) = done_count
        /\ pc = "fallbacks" => Len(C23_LoopValues) = 5
        /\ \A i \in 1..Len(C23_LoopValues) :
              /\ C23_LoopValues[i] = <<37, 49, 61, 73, 85>>[i]
              /\ C23_LoopValues[i] \in 0..100
              /\ i > 1 => C23_LoopValues[i] > C23_LoopValues[i - 1]

\* C23, the case: the loop ended after five completions and five values
C23_FiveNotified ==
    /\ pc = "fallbacks" /\ Cardinality(yielded) = 5
    /\ C23_LoopValues = <<37, 49, 61, 73, 85>>

\* the snapshot of the claim: every trust signal present
C24_AllSignals(pd) ==
    /\ pd.has_ssl /\ pd.has_privacy_policy /\ pd.has_contact_info
    /\ pd.has_structured_data /\ pd.social_links = 3
    /\ pd.title # "" /\ pd.meta_description # ""

\* C24: for a snapshot with SSL, privacy policy, contact info and structured
\* data all true, 3 social links and both title and meta description, when
\* the external call fails the Trust agent returns the rule-based score
\* 20 + 20 + 15 + 15 + 10 + 10 + 5 = 95 with one finding for each of the six
\* contributing signals.
C24_TrustFallbackScore ==
    (/\ a_pc = "done" /\ a_agent = "trust" /\ a_outcome.raised
     /\ C24_AllSignals(a_pd)) =>
        /\ ~a_ret.raised /\ a_ret.path = "fallback"
        /\ a_ret.result.score = 950
        /\ a_ret.result.findings =
               PyList(<<PyStr(<<"HTTPS / SSL enabled [check]">>),
                        PyStr(<<"Privacy policy detected [check]">>),
                        PyStr(<<"Contact information detected [check]">>),
                        PyStr(<<"3", " social media links -- good legitimacy signal">>),
                        PyStr(<<"Structured data (schema.org) present [check]">>),
                        PyStr(<<"Professional title and meta description present">>)>>)

\* C24, the case: the trust request failed on the page with every signal
C24_AllSignalsFallback ==
    /\ a_pc = "done" /\ a_agent = "trust" /\ a_outcome.raised
    /\ C24_AllSignals(a_pd) /\ a_ret.result.score = 950

\* the analyze calls that have raised
C25_RaisedCalls == {k \in KeySet : fut_state[k] = "finished" /\ fut_ret[k].raised}

\* C25: when an analyze call raises, the dispatcher does not catch it: the
\* error leaves the dispatch loop when that future's result is retrieved, the
\* aggregator is never invoked, no composite result or partial results
\* mapping is returned or stored in the session, and the run ends with an
\* "Analysis failed" error; the agents already submitted still run to
\* completion before the error reaches the caller.
C25_RaiseLeavesDispatcher ==
    /\ C25_RaisedCalls # {} =>
          /\ pc \in {"submit", "collect", "shutdown", "failed", "error_shown"}
          /\ overall = 0 /\ grade = "" /\ usage = NoUsage /\ session = "empty"
          /\ fallback_agents = {}
    /\ (C25_RaisedCalls \cap yielded) # {} =>
          /\ pc \in {"shutdown", "failed", "error_shown"}
          /\ error = "TypeError"
          /\ Cardinality(C25_RaisedCalls \cap yielded) = 1
          /\ pc \in {"failed", "error_shown"} => \A k \in KeySet : fut_state[k] = "finished"

\* C25, the case: the visual agent raised while others were still to be
\* collected, all five ran to the end, and main reported the failure
C25_FailureShown ==
    /\ pc = "error_shown" /\ error = "TypeError"
    /\ fut_ret["visual"].raised /\ yielded # KeySet
    /\ \A k \in KeySet : fut_state[k] = "finished"
    /\ session = "empty"

\* the range the claim gives for each rule-based scorer
C26_Range(key) ==
    CASE key = "text" -> 20 .. 85
      [] key = "visual" -> 20 .. 70
      [] key = "ux" -> 30 .. 85
      [] key = "trust" -> 20 .. 95
      [] key = "tech" -> 15 .. 84

\* C26: the final clamp of the rule-based scorers never changes a score: for
\* every snapshot the unclamped score is already inside [0,100], with text in
\* [20,85], visual in [20,70], ux in [30,85], trust in [20,95] and tech in
\* [15,84], so no fallback result scores above 95 or below 15.
C26_ClampNeverActs ==
    a_pc = "scored" =>
        /\ Unclamped(a_agent, a_pd) \in 0 .. 100
        /\ Unclamped(a_agent, a_pd) \in C26_Range(a_agent)
        /\ a_ret.result.score = 10 * Unclamped(a_agent, a_pd)
        /\ a_ret.result.score >= 150 /\ a_ret.result.score <= 950

\* C26, the case: a scorer has run on a snapshot that takes it to an end of
\* its range, the highest (trust, 95) or the lowest (tech, 15)
C26_ExtremeScored ==
    /\ a_pc = "scored"
    /\ \/ a_agent = "trust" /\ Unclamped(a_agent, a_pd) = 95
       \/ a_agent = "tech" /\ Unclamped(a_agent, a_pd) = 15
    /\ a_ret.result.score = 10 * Unclamped(a_agent, a_pd)

====
